---------------------------- MODULE Spec2Model ----------------------------
(***************************************************************************)
(* A model of the pokemon-battle service: the battle algorithm of          *)
(* battle.py (type chart, base power, per-side score, draw policy), the    *)
(* lookup service and battle service of services.py, the cache and client  *)
(* of pokeapi.py, the session scope of database.py and the error mapping   *)
(* of api.py.                                                              *)
(*                                                                         *)
(* Numbers.  Python floats are modelled as exact rationals <<n, d>> in     *)
(* lowest terms with d > 0; 0.5, 0.3, 0.2 and 0.01 are 1/2, 3/10, 1/5 and  *)
(* 1/100.  Rounding to two decimals is round-half-even on the exact value; *)
(* where the exact value lies halfway between two hundredths the float     *)
(* result depends on representation error, and nothing below relies on     *)
(* the direction of such a tie.                                            *)
(*                                                                         *)
(* Text.  A name is a sequence of one-character strings, so that lower(),  *)
(* upper() and strip() are computed.  A stored `types` string is a         *)
(* sequence of atoms: "," , " " and words without commas or blanks, so     *)
(* that split(","), strip() and ",".join() are computed.                    *)
(***************************************************************************)
EXTENDS Integers, Sequences, FiniteSets, TLC

VARIABLES
    store,      \* table pokemon: the committed rows
    battles,    \* table battles: the committed rows
    pending,    \* per request: the rows its session has flushed, uncommitted
    cache,      \* PokemonCache._cache: key -> CacheEntry
    source,     \* the external source: key -> payload
    now,        \* time.time()
    next_id,    \* the autoincrement counters of the two tables
    started,    \* how many requests have been received
    req,        \* per request: the handler's position and local variables
    first,      \* scoring harness: first argument of execute_battle
    second,     \* scoring harness: second argument of execute_battle
    result,     \* scoring harness: execute_battle(first, second)
    rematch,    \* scoring harness: execute_battle(second, first)
    power,      \* scoring harness: calculate_base_power(first)
    side,       \* scoring harness: calculate_battle_score(first, second, ...)
    atk_labels, \* type harness: first argument of get_type_effectiveness
    def_labels, \* type harness: second argument of get_type_effectiveness
    effectiveness,  \* type harness: get_type_effectiveness(atk_labels, def_labels)
    written,    \* cache harness: per key, the last set() and whether a
                \* clear() came after it
    last_get    \* cache harness: the last get(), with what it returned

svars == <<store, battles, pending, cache, source, now, next_id, started, req>>
bvars == <<first, second, result, rematch>>
hvars == <<power, side, atk_labels, def_labels, effectiveness, written, last_get>>
vars == <<store, battles, pending, cache, source, now, next_id, started, req,
          first, second, result, rematch, power, side, atk_labels,
          def_labels, effectiveness, written, last_get>>

(***************************************************************************)
(* Rational arithmetic (Python float operators)                            *)
(***************************************************************************)
\* Arguments are evaluated once and then used by value.
Once1(F(_), x) == CHOOSE z \in { F(a) : a \in {x} } : TRUE
Once2(F(_, _), x, y) == CHOOSE z \in { F(a, b) : a \in {x}, b \in {y} } : TRUE

RECURSIVE Gcd(_, _)
Gcd(a, b) == IF b = 0 THEN a ELSE Gcd(b, a % b)

IAbs(i) == IF i < 0 THEN 0 - i ELSE i
IMax(i, j) == IF j > i THEN j ELSE i

\* n/d in lowest terms, d > 0.
Reduce(n, d, g) == IF d < 0 THEN <<(0 - n) \div g, (0 - d) \div g>>
                   ELSE <<n \div g, d \div g>>
Lowest(n, d) == Once1(LAMBDA g : Reduce(n, d, g), Gcd(IAbs(n), IAbs(d)))
Q(n, d) == Once2(Lowest, n, d)

I(i) == <<i, 1>>

\* Sums and products cancel common factors before they multiply, so that
\* intermediate values stay small.
AddBy(x, y, g) ==
    Q(x[1] * (y[2] \div g) + y[1] * (x[2] \div g), (x[2] \div g) * y[2])
AddV(x, y) == Once1(LAMBDA g : AddBy(x, y, g), Gcd(x[2], y[2]))
RAdd(x, y) == Once2(AddV, x, y)

RNeg(x) == Once1(LAMBDA a : <<0 - a[1], a[2]>>, x)
RSub(x, y) == RAdd(x, RNeg(y))

MulBy(x, y, g1, g2) ==
    Q((x[1] \div g1) * (y[1] \div g2), (x[2] \div g2) * (y[2] \div g1))
MulV(x, y) ==
    Once2(LAMBDA g1, g2 : MulBy(x, y, g1, g2),
          Gcd(IAbs(x[1]), y[2]), Gcd(IAbs(y[1]), x[2]))
RMul(x, y) == Once2(MulV, x, y)

Inverse(y) == IF y[1] < 0 THEN <<0 - y[2], 0 - y[1]>> ELSE <<y[2], y[1]>>
RDiv(x, y) == RMul(x, Once1(Inverse, y))

\* The order of a/b and c/d (a, c >= 0 and b, d > 0) as -1, 0 or 1, by
\* integer parts and then by the reciprocals of the fractional parts.
RECURSIVE Cmp(_, _, _, _)
Cmp(a, b, c, d) ==
    IF a \div b < c \div d THEN 0 - 1
    ELSE IF a \div b > c \div d THEN 1
    ELSE IF a % b = 0 /\ c % d = 0 THEN 0
    ELSE IF a % b = 0 THEN 0 - 1
    ELSE IF c % d = 0 THEN 1
    ELSE Cmp(d, c % d, b, a % b)

LtV(x, y) ==
    IF x[1] < 0 /\ y[1] >= 0 THEN TRUE
    ELSE IF x[1] >= 0 /\ y[1] < 0 THEN FALSE
    ELSE IF x[1] < 0 THEN Cmp(0 - y[1], y[2], 0 - x[1], x[2]) < 0
    ELSE Cmp(x[1], x[2], y[1], y[2]) < 0
RLt(x, y) == Once2(LtV, x, y)
RGt(x, y) == RLt(y, x)
RAbs(x) == Once1(LAMBDA a : <<IAbs(a[1]), a[2]>>, x)
\* As RMin, but without the comparison: always the first argument.
RMin_first(x, y) == x

RMin(x, y) == Once2(LAMBDA a, b : IF LtV(b, a) THEN b ELSE a, x, y)

Zero == I(0)
One == I(1)
Two == I(2)
Half == <<1, 2>>

\* round(x, 2) and f"{x:.2f}": the nearest multiple of 1/100, ties to even.
RoundBy(x, q, r) ==
    IF 2 * r < x[2] THEN q
    ELSE IF 2 * r > x[2] THEN q + 1
    ELSE IF q % 2 = 0 THEN q ELSE q + 1
RoundV(x) ==
    Once2(LAMBDA q, r : Q(IF x[1] < 0 THEN 0 - RoundBy(x, q, r) ELSE RoundBy(x, q, r), 100),
          (IAbs(x[1]) * 100) \div x[2], (IAbs(x[1]) * 100) % x[2])
\* As Round2, but cutting off after the first decimal.
Round2_one_decimal(x) ==
    IF x[1] < 0 THEN Q(0 - ((0 - x[1]) * 10) \div x[2], 10)
    ELSE Q((x[1] * 10) \div x[2], 10)

Round2(x) == Once1(RoundV, x)

(***************************************************************************)
(* Text operations                                                         *)
(***************************************************************************)
LowerChar(c) ==
    CASE c = "A" -> "a"
      [] c = "B" -> "b"
      [] c = "Z" -> "z"
      [] OTHER -> c

UpperChar(c) ==
    CASE c = "a" -> "A"
      [] c = "b" -> "B"
      [] c = "z" -> "Z"
      [] OTHER -> c

\* str.lower()
Lower(s) == [i \in 1..Len(s) |-> LowerChar(s[i])]

\* str.upper()
Upper(s) == [i \in 1..Len(s) |-> UpperChar(s[i])]

RECURSIVE LStrip(_)
LStrip(s) == IF s # <<>> /\ Head(s) = " " THEN LStrip(Tail(s)) ELSE s

RECURSIVE RStrip(_)
RStrip(s) ==
    IF s # <<>> /\ s[Len(s)] = " " THEN RStrip(SubSeq(s, 1, Len(s) - 1)) ELSE s

\* str.strip()
Strip(s) == RStrip(LStrip(s))

\* As Normalize, but surrounding whitespace is kept.
Normalize_lower_only(name) == Lower(name)

\* name.lower().strip()
Normalize(name) == Strip(Lower(name))

\* str.split(","): the pieces between the "," atoms (always at least one).
RECURSIVE SplitFrom(_, _, _)
SplitFrom(s, piece, out) ==
    IF s = <<>> THEN Append(out, piece)
    ELSE IF Head(s) = "," THEN SplitFrom(Tail(s), <<>>, Append(out, piece))
    ELSE SplitFrom(Tail(s), Append(piece, Head(s)), out)

SplitComma(s) == SplitFrom(s, <<>>, <<>>)

\* The word a stripped piece spells: its atoms concatenated.
RECURSIVE Word(_)
Word(piece) == IF piece = <<>> THEN "" ELSE Head(piece) \o Word(Tail(piece))

\* ",".join(labels)
RECURSIVE JoinComma(_)
JoinComma(labels) ==
    IF labels = <<>> THEN <<>>
    ELSE IF Len(labels) = 1 THEN <<labels[1]>>
    ELSE <<labels[1], ",">> \o JoinComma(Tail(labels))

\* [t.strip() for t in types.split(",") if t.strip()]
RECURSIVE StripPieces(_)
StripPieces(pieces) ==
    IF pieces = <<>> THEN <<>>
    ELSE LET t == Strip(Head(pieces))
         IN  IF t # <<>> THEN <<Word(t)>> \o StripPieces(Tail(pieces))
             ELSE StripPieces(Tail(pieces))

parse_types(types) == StripPieces(SplitComma(types))

(***************************************************************************)
(* battle.py: the type chart                                               *)
(***************************************************************************)
TYPE_CHART ==
    [normal |-> [rock |-> Half, ghost |-> Zero, steel |-> Half],
     fire |-> [fire |-> Half, water |-> Half, grass |-> Two, ice |-> Two,
               bug |-> Two, rock |-> Half, dragon |-> Half, steel |-> Two],
     water |-> [fire |-> Two, water |-> Half, grass |-> Half, ground |-> Two,
                rock |-> Two, dragon |-> Half],
     electric |-> [water |-> Two, electric |-> Half, grass |-> Half,
                   ground |-> Zero, flying |-> Two, dragon |-> Half],
     grass |-> [fire |-> Half, water |-> Two, grass |-> Half, poison |-> Half,
                ground |-> Two, flying |-> Half, bug |-> Half, rock |-> Two,
                dragon |-> Half, steel |-> Half],
     ice |-> [fire |-> Half, water |-> Half, grass |-> Two, ice |-> Half,
              ground |-> Two, flying |-> Two, dragon |-> Two, steel |-> Half],
     fighting |-> [normal |-> Two, ice |-> Two, poison |-> Half,
                   flying |-> Half, psychic |-> Half, bug |-> Half,
                   rock |-> Two, ghost |-> Zero, dark |-> Two, steel |-> Two,
                   fairy |-> Half],
     poison |-> [grass |-> Two, poison |-> Half, ground |-> Half,
                 rock |-> Half, ghost |-> Half, steel |-> Zero, fairy |-> Two],
     ground |-> [fire |-> Two, electric |-> Two, grass |-> Half,
                 poison |-> Two, flying |-> Zero, bug |-> Half, rock |-> Two,
                 steel |-> Two],
     flying |-> [electric |-> Half, grass |-> Two, fighting |-> Two,
                 bug |-> Two, rock |-> Half, steel |-> Half],
     psychic |-> [fighting |-> Two, poison |-> Two, psychic |-> Half,
                  dark |-> Zero, steel |-> Half],
     bug |-> [fire |-> Half, grass |-> Two, fighting |-> Half,
              poison |-> Half, flying |-> Half, psychic |-> Two,
              ghost |-> Half, dark |-> Two, steel |-> Half, fairy |-> Half],
     rock |-> [fire |-> Two, ice |-> Two, fighting |-> Half, ground |-> Half,
               flying |-> Two, bug |-> Two, steel |-> Half],
     ghost |-> [normal |-> Zero, psychic |-> Two, ghost |-> Two, dark |-> Half],
     dragon |-> [dragon |-> Two, steel |-> Half, fairy |-> Zero],
     dark |-> [fighting |-> Half, psychic |-> Two, ghost |-> Two,
               dark |-> Half, fairy |-> Half],
     steel |-> [fire |-> Half, water |-> Half, electric |-> Half, ice |-> Two,
                rock |-> Two, steel |-> Half, fairy |-> Two],
     fairy |-> [fire |-> Half, fighting |-> Two, poison |-> Half,
                dragon |-> Two, dark |-> Two, steel |-> Half]]

\* dict.get(key, default)
DictGet(dict, key, default) == IF key \in DOMAIN dict THEN dict[key] ELSE default

\* The inner loop of get_type_effectiveness: one attacking type against
\* every defending type in turn.
RECURSIVE EffectivenessRow(_, _, _)
EffectivenessRow(atk_chart, defender_types, multiplier) ==
    IF defender_types = <<>> THEN multiplier
    ELSE EffectivenessRow(atk_chart, Tail(defender_types),
             RMul(multiplier, DictGet(atk_chart, Head(defender_types), One)))

\* The outer loop of get_type_effectiveness.
RECURSIVE EffectivenessLoop(_, _, _)
EffectivenessLoop(attacker_types, defender_types, multiplier) ==
    IF attacker_types = <<>> THEN multiplier
    ELSE EffectivenessLoop(Tail(attacker_types), defender_types,
             EffectivenessRow(DictGet(TYPE_CHART, Head(attacker_types), <<>>),
                              defender_types, multiplier))

\* As get_type_effectiveness, but each attacking type meets only the first
\* defending type.
get_type_effectiveness_first_defender(attacker_types, defender_types) ==
    EffectivenessLoop(attacker_types,
                      IF defender_types = <<>> THEN <<>>
                      ELSE <<Head(defender_types)>>,
                      One)

\* As get_type_effectiveness, but an attacking label the chart does not know
\* has no effect at all.
get_type_effectiveness_known_only(attacker_types, defender_types) ==
    IF \E i \in DOMAIN attacker_types : attacker_types[i] \notin DOMAIN TYPE_CHART
    THEN Zero
    ELSE EffectivenessLoop(attacker_types, defender_types, One)

get_type_effectiveness(attacker_types, defender_types) ==
    EffectivenessLoop(attacker_types, defender_types, One)

(***************************************************************************)
(* battle.py: base power, per-side score, battle                           *)
(***************************************************************************)
\* As calculate_base_power, but hp counts in full.
calculate_base_power_full_hp(pokemon) ==
    LET offensive == RDiv(I(pokemon.attack + pokemon.special_attack), Two)
        defensive == RDiv(I(pokemon.defense + pokemon.special_defense), Two)
    IN  RDiv(RAdd(RAdd(RAdd(I(pokemon.hp), offensive), defensive),
                  I(pokemon.speed)),
             I(4))

calculate_base_power(pokemon) ==
    LET offensive == RDiv(I(pokemon.attack + pokemon.special_attack), Two)
        defensive == RDiv(I(pokemon.defense + pokemon.special_defense), Two)
    IN  RDiv(RAdd(RAdd(RAdd(RMul(I(pokemon.hp), Half), offensive), defensive),
                  I(pokemon.speed)),
             I(4))

\* As score_log, but with the lines for type and speed exchanged.
score_log_speed_first(attacker, defender, base_power, type_effectiveness, score) ==
    << <<"Base Power", Round2(base_power)>>,
       IF attacker.speed > defender.speed
       THEN <<"Speed Advantage", attacker.speed, defender.speed>>
       ELSE <<"Speed", attacker.speed, defender.speed>>,
       IF RGt(type_effectiveness, One)
       THEN <<"Type Advantage", Round2(type_effectiveness)>>
       ELSE IF RLt(type_effectiveness, One)
       THEN <<"Type Disadvantage", Round2(type_effectiveness)>>
       ELSE <<"Type: Neutral">>,
       <<"Final Score", Round2(score)>> >>

\* The per-side trace: base power, type label, speed comparison, final score.
score_log(attacker, defender, base_power, type_effectiveness, score) ==
    << <<"Base Power", Round2(base_power)>>,
       IF RGt(type_effectiveness, One)
       THEN <<"Type Advantage", Round2(type_effectiveness)>>
       ELSE IF RLt(type_effectiveness, One)
       THEN <<"Type Disadvantage", Round2(type_effectiveness)>>
       ELSE <<"Type: Neutral">>,
       IF attacker.speed > defender.speed
       THEN <<"Speed Advantage", attacker.speed, defender.speed>>
       ELSE <<"Speed", attacker.speed, defender.speed>>,
       <<"Final Score", Round2(score)>> >>

\* calculate_battle_score once base_power and type_effectiveness are known.
score_from(attacker, defender, base_power, type_effectiveness) ==
    LET type_bonus == RMul(RMul(type_effectiveness, base_power), Q(3, 10))
        speed_ratio == RDiv(I(attacker.speed), I(IMax(defender.speed, 1)))
        speed_bonus == RMul(RMul(RMin(speed_ratio, Two), base_power), Q(1, 5))
    IN  Once1(LAMBDA score :
                 [score |-> score,
                  log_entries |-> score_log(attacker, defender, base_power,
                                            type_effectiveness, score)],
              RAdd(RAdd(RMul(base_power, Half), type_bonus), speed_bonus))

\* Returns [score, log_entries].
calculate_battle_score(attacker, defender, attacker_types, defender_types) ==
    Once2(LAMBDA base_power, type_effectiveness :
             score_from(attacker, defender, base_power, type_effectiveness),
          calculate_base_power(attacker),
          get_type_effectiveness(attacker_types, defender_types))

\* Python's None.
None == [none |-> TRUE]

\* The banner, the two participants' attributes and the two per-side traces
\* (execute_battle up to "Determine winner").
battle_log_head(pokemon1, pokemon2, p1_types, p2_types, log1, log2) ==
    << <<"=">>,
       <<"BATTLE:", Upper(pokemon1.name), "vs", Upper(pokemon2.name)>>,
       <<"=">>,
       <<>>,
       <<Upper(pokemon1.name), p1_types>>,
       <<"HP", pokemon1.hp, "ATK", pokemon1.attack, "DEF", pokemon1.defense>>,
       <<"SP.ATK", pokemon1.special_attack, "SP.DEF", pokemon1.special_defense,
         "SPD", pokemon1.speed>>,
       <<>>,
       <<Upper(pokemon2.name), p2_types>>,
       <<"HP", pokemon2.hp, "ATK", pokemon2.attack, "DEF", pokemon2.defense>>,
       <<"SP.ATK", pokemon2.special_attack, "SP.DEF", pokemon2.special_defense,
         "SPD", pokemon2.speed>>,
       <<>>,
       <<"Attack", Upper(pokemon1.name)>> >>
    \o log1 \o
    << <<>>, <<"Attack", Upper(pokemon2.name)>> >>
    \o log2 \o
    << <<>>, <<"=">> >>

\* As is_draw_rule, but without the equal-scores case of a zero average.
is_draw_rule_positive_only(score1, score2) ==
    /\ RGt(RDiv(RAdd(score1, score2), Two), Zero)
    /\ RLt(RAbs(RSub(score1, score2)),
           RMul(RDiv(RAdd(score1, score2), Two), Q(1, 100)))

\* As is_draw_rule, but a difference of exactly 1% of the average is a draw.
is_draw_rule_inclusive(score1, score2) ==
    IF RGt(RDiv(RAdd(score1, score2), Two), Zero)
    THEN ~RGt(RAbs(RSub(score1, score2)),
              RMul(RDiv(RAdd(score1, score2), Two), Q(1, 100)))
    ELSE score1 = score2

\* As is_draw_rule, but scores within 10% of their average are a draw.
is_draw_rule_tenth(score1, score2) ==
    IF RGt(RDiv(RAdd(score1, score2), Two), Zero)
    THEN RLt(RAbs(RSub(score1, score2)),
             RMul(RDiv(RAdd(score1, score2), Two), Q(1, 10)))
    ELSE score1 = score2

\* is_draw = score_diff < (avg_score * 0.01) if avg_score > 0 else score1 == score2
is_draw_rule(score1, score2) ==
    Once2(LAMBDA score_diff, avg_score :
             IF RGt(avg_score, Zero)
             THEN RLt(score_diff, RMul(avg_score, Q(1, 100)))
             ELSE score1 = score2,
          RAbs(RSub(score1, score2)),
          RDiv(RAdd(score1, score2), Two))

\* As pick_winner, but a draw has a winner too.
pick_winner_despite_draw(pokemon1, pokemon2, score1, score2, is_draw) ==
    IF RGt(score1, score2) THEN pokemon1 ELSE pokemon2

\* As pick_winner, but the first participant wins whatever the scores.
pick_winner_first(pokemon1, pokemon2, score1, score2, is_draw) ==
    IF is_draw THEN None ELSE pokemon1

\* As pick_winner, but the lower score wins.
pick_winner_lower(pokemon1, pokemon2, score1, score2, is_draw) ==
    IF is_draw THEN None
    ELSE IF RGt(score1, score2) THEN pokemon2
    ELSE pokemon1

\* The if / elif / else that picks the winner.
pick_winner(pokemon1, pokemon2, score1, score2, is_draw) ==
    IF is_draw THEN None
    ELSE IF RGt(score1, score2) THEN pokemon1
    ELSE pokemon2

\* execute_battle from "Determine winner" on, the two sides being scored.
battle_result(pokemon1, pokemon2, p1_types, p2_types, side1, side2, is_draw) ==
    [winner |-> pick_winner(pokemon1, pokemon2, side1.score, side2.score, is_draw),
     pokemon1_score |-> Round2(side1.score),
     pokemon2_score |-> Round2(side2.score),
     battle_log |->
         battle_log_head(pokemon1, pokemon2, p1_types, p2_types,
                         side1.log_entries, side2.log_entries)
         \o (IF is_draw
             THEN << <<"RESULT: DRAW!">>,
                     <<"Scores were too close", Round2(side1.score),
                       Round2(side2.score)>> >>
             ELSE << <<"WINNER",
                       Upper(pick_winner(pokemon1, pokemon2, side1.score,
                                         side2.score, is_draw).name)>>,
                     <<"Final Scores", Round2(side1.score), Round2(side2.score)>> >>)
         \o << <<"=">> >>,
     is_draw |-> is_draw]

battle_sides(pokemon1, pokemon2, p1_types, p2_types) ==
    Once2(LAMBDA side1, side2 :
             Once1(LAMBDA is_draw :
                      battle_result(pokemon1, pokemon2, p1_types, p2_types,
                                    side1, side2, is_draw),
                   is_draw_rule(side1.score, side2.score)),
          calculate_battle_score(pokemon1, pokemon2, p1_types, p2_types),
          calculate_battle_score(pokemon2, pokemon1, p2_types, p1_types))

execute_battle(pokemon1, pokemon2) ==
    Once2(LAMBDA p1_types, p2_types :
             battle_sides(pokemon1, pokemon2, p1_types, p2_types),
          parse_types(pokemon1.types), parse_types(pokemon2.types))

(***************************************************************************)
(* The scoring harness: execute_battle applied to a pair of records        *)
(***************************************************************************)
MaxStat == 2

\* Pokemon(...): a row of table pokemon.  lookup_name is not a column: it
\* records the name under which get_or_fetch_pokemon looked the row up.
Pokemon(id, pokeapi_id, name, stats, types, sprite_url, lookup_name) ==
    [id |-> id, pokeapi_id |-> pokeapi_id, name |-> name,
     hp |-> stats.hp, attack |-> stats.attack, defense |-> stats.defense,
     special_attack |-> stats.special_attack,
     special_defense |-> stats.special_defense, speed |-> stats.speed,
     types |-> types, sprite_url |-> sprite_url, lookup_name |-> lookup_name]

Stats(hp, attack, defense, special_attack, special_defense, speed) ==
    [hp |-> hp, attack |-> attack, defense |-> defense,
     special_attack |-> special_attack, special_defense |-> special_defense,
     speed |-> speed]

StatsOf(p) ==
    Stats(p.hp, p.attack, p.defense, p.special_attack, p.special_defense, p.speed)

\* The fixtures of tests/conftest.py.
pikachu_stats == Stats(35, 55, 40, 50, 50, 90)
charizard_stats == Stats(78, 84, 78, 109, 85, 100)
blastoise_stats == Stats(79, 83, 100, 85, 105, 78)

\* Small attribute vectors, the all-zero one among them.
GridStats ==
    [hp : 0..MaxStat, attack : {0, 1}, defense : {0}, special_attack : {0},
     special_defense : {0}, speed : 0..MaxStat]

GridTypes == { <<"electric">>, <<"water", ",", "flying">>, <<"ground">> }

\* Two records whose scores differ by exactly 1% of their average.
boundary_hi == Stats(3, 0, 0, 0, 0, 99)
boundary_lo == Stats(1, 0, 0, 0, 0, 99)

\* <<attributes, types>> pairs the harness draws its records from: the grid,
\* the fixtures, pikachu with a few more hit points (scores within 1%), and
\* the two records at the 1% boundary, and two records whose types column is
\* empty or names no type of the chart.
Contenders ==
    (GridStats \X GridTypes)
    \cup { <<boundary_hi, <<"ground">> >>, <<boundary_lo, <<"ground">> >> }
    \cup { <<pikachu_stats, <<"electric">> >>,
           <<charizard_stats, <<"fire", ",", "flying">> >>,
           <<blastoise_stats, <<"water">> >> }
    \cup { <<[pikachu_stats EXCEPT !.hp = @ + k], <<"electric">> >> : k \in 1..MaxStat }
    \cup { <<Stats(0, 0, 0, 0, 0, 0), <<>> >>,
           <<pikachu_stats, <<"shadow", ",", " ">> >> }

Contender(id, name, c) == Pokemon(id, id, name, c[1], c[2], <<>>, name)

BattleHarnessInit ==
    /\ first \in { Contender(1, <<"a">>, c) : c \in Contenders }
    /\ second \in { Contender(2, <<"b">>, c) : c \in Contenders }
    /\ result = None
    /\ rematch = None

\* result = execute_battle(first, second)
Battle ==
    /\ result = None
    /\ result' = execute_battle(first, second)
    /\ UNCHANGED <<first, second, rematch>>
    /\ UNCHANGED <<svars, hvars>>

\* rematch = execute_battle(second, first)
Rematch ==
    /\ rematch = None
    /\ rematch' = execute_battle(second, first)
    /\ UNCHANGED <<first, second, result>>
    /\ UNCHANGED <<svars, hvars>>

(***************************************************************************)
(* The external source (PokeAPI) and the values the service handles        *)
(***************************************************************************)
\* Optional values: None is <<>>, a present value x is <<x>>.
Nothing == <<>>
Some(x) == <<x>>

\* One entry of the "stats" list of a payload.
Stat(name, base_stat) == [stat |-> [name |-> name], base_stat |-> base_stat]

StatList(st) ==
    << Stat("hp", st.hp), Stat("attack", st.attack), Stat("defense", st.defense),
       Stat("special-attack", st.special_attack),
       Stat("special-defense", st.special_defense), Stat("speed", st.speed) >>

\* One entry of the "types" list of a payload.
TypeEntry(name) == [type |-> [name |-> name]]

\* What GET {base_url}/pokemon/{key} can hold.  "a" and "b" are names; "1"
\* is the numeric id of "a", which the source accepts in place of the name
\* and answers with the payload of "a".  Any other key is unknown (404).
\* "b" is either a stronger record or one with the attributes and types of
\* "a" (and no sprite data).
payload_a ==
    [id |-> 1, name |-> <<"a">>, stats |-> StatList(pikachu_stats),
     types |-> <<TypeEntry("electric")>>,
     sprites |-> Some([front_default |-> "a.png"])]

payload_b_strong ==
    [id |-> 2, name |-> <<"b">>, stats |-> StatList(charizard_stats),
     types |-> <<TypeEntry("fire"), TypeEntry("flying")>>,
     sprites |-> Some([front_default |-> "b.png"])]

payload_b_equal ==
    [id |-> 2, name |-> <<"b">>, stats |-> StatList(pikachu_stats),
     types |-> <<TypeEntry("electric")>>, sprites |-> Nothing]

\* A payload without "id": _parse_pokemon_data cannot read it.
payload_malformed ==
    [name |-> <<"m">>, stats |-> StatList(pikachu_stats),
     types |-> <<TypeEntry("electric")>>, sprites |-> Nothing]

\* A source that holds "a" and, under "m", the malformed payload.
POKEAPI_malformed ==
    [k \in { <<"a">>, <<"m">> } |->
        IF k = <<"m">> THEN payload_malformed ELSE payload_a]

POKEAPI(b) ==
    [k \in { <<"a">>, <<"b">>, <<"1">> } |-> IF k = <<"b">> THEN b ELSE payload_a]

Sources == { POKEAPI(payload_b_strong), POKEAPI(payload_b_equal) }

\* The names clients send.
RequestNames == { <<"a">>, <<" ", "A", " ">>, <<"b">>, <<"1">>, <<"z">> }

\* What `await client.get(url)` can end in: the source's answer for the key
\* (200 with the payload, or 404), a server error, or a transport failure.
ExternalOutcomes(key) ==
    { IF key \in DOMAIN source
      THEN [kind |-> "response", status_code |-> 200, json |-> Some(source[key])]
      ELSE [kind |-> "response", status_code |-> 404, json |-> Nothing],
      [kind |-> "response", status_code |-> 500, json |-> Nothing],
      [kind |-> "RequestError", status_code |-> 0, json |-> Nothing] }

(***************************************************************************)
(* exceptions.py                                                           *)
(***************************************************************************)
PokemonBattleError(message, error_code) ==
    [cls |-> "PokemonBattleError", message |-> message, error_code |-> error_code]

PokemonNotFoundError(pokemon_name) ==
    [cls |-> "PokemonNotFoundError",
     message |-> <<"Pokemon", pokemon_name, "not found">>,
     error_code |-> Some("POKEMON_NOT_FOUND")]

PokeAPIError(message) ==
    [cls |-> "PokeAPIError",
     message |-> <<"PokeAPI error:", message>>,
     error_code |-> Some("POKEAPI_ERROR")]

SamePokemonError(pokemon_name) ==
    [cls |-> "SamePokemonError",
     message |-> <<"Cannot battle", pokemon_name, "against itself">>,
     error_code |-> Some("SAME_POKEMON")]

DatabaseError(message) ==
    [cls |-> "DatabaseError",
     message |-> <<"Database error:", message>>,
     error_code |-> Some("DATABASE_ERROR")]

\* sqlalchemy.exc.IntegrityError: a unique constraint of models.py refused
\* the INSERT.  Not a PokemonBattleError.
IntegrityError(column) ==
    [cls |-> "IntegrityError", message |-> <<"UNIQUE constraint failed", column>>,
     error_code |-> Nothing]

\* The KeyError of data[key] on a dictionary without the key.  Not a
\* PokemonBattleError.
KeyError(key) ==
    [cls |-> "KeyError", message |-> <<key>>, error_code |-> Nothing]

\* The classes an exception class derives from, itself included.
Bases(cls) ==
    IF cls \in {"PokemonNotFoundError", "PokeAPIError", "SamePokemonError",
                "DatabaseError"}
    THEN {cls, "PokemonBattleError", "Exception"}
    ELSE {cls, "Exception"}

IsInstance(error, cls) == cls \in Bases(error.cls)

(***************************************************************************)
(* api.py: the error mapping                                               *)
(***************************************************************************)
HTTPException(status_code, detail) ==
    [cls |-> "HTTPException", status_code |-> status_code, detail |-> detail]

\* As handle_pokemon_error, without the branch for PokeAPIError.
handle_pokemon_error_no_502(error) ==
    IF IsInstance(error, "PokemonNotFoundError")
    THEN HTTPException(404, error.message)
    ELSE IF IsInstance(error, "SamePokemonError")
    THEN HTTPException(400, error.message)
    ELSE HTTPException(500, error.message)

handle_pokemon_error(error) ==
    IF IsInstance(error, "PokemonNotFoundError")
    THEN HTTPException(404, error.message)
    ELSE IF IsInstance(error, "SamePokemonError")
    THEN HTTPException(400, error.message)
    ELSE IF IsInstance(error, "PokeAPIError")
    THEN HTTPException(502, error.message)
    ELSE HTTPException(500, error.message)

\* What the client receives when the endpoint raised `error`: the endpoints
\* catch PokemonBattleError and raise handle_pokemon_error(e); anything else
\* goes uncaught and the server answers 500.  error_code is the
\* machine-readable code of the response body: an HTTPException carries the
\* detail only, and the server's own 500 carries neither.
ErrorResponse(error) ==
    IF IsInstance(error, "PokemonBattleError")
    THEN LET e == handle_pokemon_error(error)
         IN  [status_code |-> e.status_code, detail |-> e.detail, body |-> None,
              error_code |-> Nothing]
    ELSE [status_code |-> 500, detail |-> <<"Internal Server Error">>,
          body |-> None, error_code |-> Nothing]

(***************************************************************************)
(* pokeapi.py: the cache and the client                                    *)
(***************************************************************************)
MaxTime == 2

\* settings.cache.pokemon_ttl, in the time unit of `now`.
pokemon_ttl == 1

CacheEntry(data, expires_at) == [data |-> data, expires_at |-> expires_at]

\* As PokemonCache_get, but an entry is already gone at its expiry time.
PokemonCache_get_early(c, key, time) ==
    IF key \notin DOMAIN c
    THEN [value |-> Nothing, cache |-> c]
    ELSE IF time >= c[key].expires_at
    THEN [value |-> Nothing, cache |-> [k \in DOMAIN c \ {key} |-> c[k]]]
    ELSE [value |-> Some(c[key].data), cache |-> c]

\* As PokemonCache_get, but an expired entry stays where it is.
PokemonCache_get_no_eviction(c, key, time) ==
    IF key \notin DOMAIN c
    THEN [value |-> Nothing, cache |-> c]
    ELSE IF time > c[key].expires_at
    THEN [value |-> Nothing, cache |-> c]
    ELSE [value |-> Some(c[key].data), cache |-> c]

\* PokemonCache.get: [value, cache], the value returned (None is <<>>) and
\* the cache afterwards.
PokemonCache_get(c, key, time) ==
    IF key \notin DOMAIN c
    THEN [value |-> Nothing, cache |-> c]
    ELSE IF time > c[key].expires_at
    THEN [value |-> Nothing, cache |-> [k \in DOMAIN c \ {key} |-> c[k]]]
    ELSE [value |-> Some(c[key].data), cache |-> c]

\* PokemonCache.set: the cache afterwards.
PokemonCache_set(c, key, value, time) ==
    [k \in DOMAIN c \cup {key} |->
        IF k = key THEN CacheEntry(value, time + pokemon_ttl) ELSE c[k]]

\* As PokemonCache_clear, but nothing is removed.
PokemonCache_clear_keeps(c) == c

\* PokemonCache.clear: the cache afterwards.
PokemonCache_clear(c) == [k \in {} |-> c[k]]

\* {stat["stat"]["name"]: stat["base_stat"] for stat in data["stats"]}: a
\* later entry of the same name replaces an earlier one.
StatsDict(stats) ==
    [n \in { stats[i].stat.name : i \in DOMAIN stats } |->
        stats[CHOOSE i \in DOMAIN stats :
                /\ stats[i].stat.name = n
                /\ \A j \in DOMAIN stats : stats[j].stat.name = n => j <= i].base_stat]

\* PokeAPIClient._parse_pokemon_data: the PokemonCreate schema.
parse_pokemon_data(data) ==
    LET stats == StatsDict(data.stats)
        types == [i \in DOMAIN data.types |-> data.types[i].type.name]
        sprite_url == IF data.sprites # Nothing
                      THEN Some(data.sprites[1].front_default)
                      ELSE Nothing
    IN  [pokeapi_id |-> data.id,
         name |-> data.name,
         hp |-> DictGet(stats, "hp", 0),
         attack |-> DictGet(stats, "attack", 0),
         defense |-> DictGet(stats, "defense", 0),
         special_attack |-> DictGet(stats, "special-attack", 0),
         special_defense |-> DictGet(stats, "special-defense", 0),
         speed |-> DictGet(stats, "speed", 0),
         types |-> JoinComma(types),
         sprite_url |-> sprite_url]

\* As get_pokemon_response, but a 404 is reported like any other HTTP error.
get_pokemon_response_no_404(name, response) ==
    IF response.kind = "RequestError"
    THEN [raised |-> Some(PokeAPIError(<<"request failed">>)), data |-> Nothing]
    ELSE IF response.status_code >= 400
    THEN [raised |-> Some(PokeAPIError(<<"HTTP error", response.status_code>>)),
          data |-> Nothing]
    ELSE [raised |-> Nothing, data |-> response.json]

\* The keys _parse_pokemon_data subscripts, in the order it does.
ParsedKeys == <<"stats", "types", "id", "name">>

\* _parse_pokemon_data raises KeyError on this payload.
ParseFails(data) == \E i \in DOMAIN ParsedKeys : ParsedKeys[i] \notin DOMAIN data

\* The first key _parse_pokemon_data does not find.
MissingKey(data) ==
    ParsedKeys[CHOOSE i \in DOMAIN ParsedKeys :
                  /\ ParsedKeys[i] \notin DOMAIN data
                  /\ \A j \in 1..(i - 1) : ParsedKeys[j] \in DOMAIN data]

\* As cache_response, but only a payload that can be parsed is cached.
cache_response_if_parsed(c, key, data, time) ==
    IF ParseFails(data) THEN c ELSE PokemonCache_set(c, key, data, time)

\* get_pokemon on a success response: self.cache.set(name_lower, data), before
\* the payload is parsed.
cache_response(c, key, data, time) == PokemonCache_set(c, key, data, time)

\* PokeAPIClient.get_pokemon after `await client.get(...)` returned or
\* raised: [raised, data], the exception raised (None is <<>>) or the payload
\* that is cached and parsed.
get_pokemon_response(name, response) ==
    IF response.kind = "RequestError"
    THEN [raised |-> Some(PokeAPIError(<<"request failed">>)), data |-> Nothing]
    ELSE IF response.status_code = 404
    THEN [raised |-> Some(PokemonNotFoundError(name)), data |-> Nothing]
    ELSE IF response.status_code >= 400
    THEN [raised |-> Some(PokeAPIError(<<"HTTP error", response.status_code>>)),
          data |-> Nothing]
    ELSE [raised |-> Nothing, data |-> response.json]

(***************************************************************************)
(* Requests: api.py endpoints, services.py, database.get_db                *)
(***************************************************************************)
MaxRequests == 2

Requests == {1, 2}

\* A request slot before its first request.  ops is not a variable of the
\* code: it lists what the handler has done so far, as <<operation, name, n>>:
\* "query" (n = rows found) and "insert" / "insert_battle" (n = the id) on
\* the store, "cache_get" (n = 1 on a hit) and "cache_set" on the cache,
\* "external" (n = the status code, 0 when no answer came) on the source.
IdleRequest ==
    [pc |-> "idle", kind |-> "none", serial |-> 0,
     pokemon1_name |-> <<>>, pokemon2_name |-> <<>>,
     name1 |-> <<>>, name2 |-> <<>>, which |-> 1,
     pokemon1 |-> None, pokemon2 |-> None, data |-> None,
     result |-> None, battle |-> None,
     exc |-> None, response |-> None, ops |-> <<>>]

ServiceInit ==
    /\ store = {}
    /\ battles = {}
    /\ pending = [r \in Requests |-> [pokemon |-> {}, battles |-> {}]]
    /\ cache = <<>>
    /\ source \in Sources
    /\ now = 0
    /\ next_id = [pokemon |-> 1, battles |-> 1]
    /\ started = 0
    /\ req = [r \in Requests |-> IdleRequest]

InFlight(r) == req[r].pc # "idle"

\* A new request is taken up by the lowest free slot, one request at a time.
CanStart(r) ==
    /\ started < MaxRequests
    /\ \A o \in Requests : ~InFlight(o)
    /\ r = 1

\* The name the running get_or_fetch_pokemon call was given.
LookupArg(q) == IF q.which = 1 THEN q.name1 ELSE q.name2

\* As Visible, but a session does not see the rows it has flushed itself.
Visible_committed(r) == store

\* The rows a request's session sees: the committed ones and its own.
Visible(r) == store \cup pending[r].pokemon

\* As Raise, but a battle request whose first lookup failed goes on to the
\* second name before it reports the failure.
Raise_after_second(q, error) ==
    IF q.kind = "battle" /\ q.which = 1 /\ q.ops # <<>>
    THEN [q EXCEPT !.exc = error, !.which = 2, !.pc = "lookup"]
    ELSE [q EXCEPT !.exc = error, !.pc = "rollback"]

\* As Raise, but a PokeAPIError sends the request back to the external call
\* a few times before it gives up.
Raise_retrying(q, error) ==
    IF error.cls = "PokeAPIError" /\ Len(q.ops) < 6
    THEN [q EXCEPT !.pc = "fetch"]
    ELSE [q EXCEPT !.exc = error, !.pc = "rollback"]

\* An exception leaves the handler: the session is rolled back next.
Raise(q, error) == [q EXCEPT !.exc = error, !.pc = "rollback"]

\* get_or_fetch_pokemon returned `pokemon` to its caller:
\* BattleService.execute_battle goes on to the second name or to the battle,
\* the GET endpoint returns.
Resolved(q, pokemon) ==
    IF q.kind = "get"
    THEN [q EXCEPT !.pokemon1 = pokemon, !.pc = "commit"]
    ELSE IF q.which = 1
    THEN [q EXCEPT !.pokemon1 = pokemon, !.which = 2, !.pc = "lookup"]
    ELSE [q EXCEPT !.pokemon2 = pokemon, !.pc = "save_battle"]

\* POST /battles: create_battle calls BattleService.execute_battle, which
\* normalizes the names and raises SamePokemonError if they are equal.
StartBattle(r, pokemon1_name, pokemon2_name) ==
    /\ CanStart(r)
    /\ started' = started + 1
    /\ LET name1 == Normalize(pokemon1_name)
           name2 == Normalize(pokemon2_name)
           q == [IdleRequest EXCEPT !.kind = "battle", !.serial = started + 1,
                                    !.pokemon1_name = pokemon1_name,
                                    !.pokemon2_name = pokemon2_name,
                                    !.name1 = name1, !.name2 = name2,
                                    !.pc = "lookup"]
       IN  req' = [req EXCEPT ![r] =
                      IF name1 = name2 THEN Raise(q, SamePokemonError(name1)) ELSE q]
    /\ UNCHANGED <<store, battles, pending, cache, source, now, next_id>>
    /\ UNCHANGED <<bvars, hvars>>

\* GET /pokemon/{name}: get_pokemon calls get_or_fetch_pokemon(name).
StartGet(r, name) ==
    /\ CanStart(r)
    /\ started' = started + 1
    /\ req' = [req EXCEPT ![r] =
                  [IdleRequest EXCEPT !.kind = "get", !.serial = started + 1,
                                      !.pokemon1_name = name, !.name1 = name,
                                      !.pc = "lookup"]]
    /\ UNCHANGED <<store, battles, pending, cache, source, now, next_id>>
    /\ UNCHANGED <<bvars, hvars>>

\* GET /pokemon/{name} arriving while another request may be under way: the
\* handlers are coroutines of one event loop and interleave at their awaits.
RaceNames == { <<"a">>, <<"b">> }

StartConcurrentGet(r, name) ==
    /\ ~InFlight(r)
    /\ started < MaxRequests
    /\ started' = started + 1
    /\ req' = [req EXCEPT ![r] =
                  [IdleRequest EXCEPT !.kind = "get", !.serial = started + 1,
                                      !.pokemon1_name = name, !.name1 = name,
                                      !.pc = "lookup"]]
    /\ UNCHANGED <<store, battles, pending, cache, source, now, next_id>>
    /\ UNCHANGED <<bvars, hvars>>

\* return self._parse_pokemon_data(data), on a cache hit or after a fetch: the
\* PokemonCreate goes on to _create_pokemon, or the KeyError leaves the
\* handler.
Parsed(q, data) ==
    IF ParseFails(data) THEN Raise(q, KeyError(MissingKey(data)))
    ELSE [q EXCEPT !.data = parse_pokemon_data(data), !.pc = "insert"]

\* get_or_fetch_pokemon up to the external call: the store is queried by
\* the normalized name; on a miss PokeAPIClient.get_pokemon reads the cache,
\* and either parses the cached payload or sends the request.
Lookup(r) ==
    LET q == req[r]
        name_lower == Normalize(LookupArg(q))
        found == { p \in Visible(r) : p.name = name_lower }
        key == Normalize(name_lower)
        got == PokemonCache_get(cache, key, now)
    IN  /\ q.pc = "lookup"
        /\ IF found # {}
           THEN /\ req' = [req EXCEPT ![r] =
                       Resolved([q EXCEPT !.ops = Append(@, <<"query", name_lower, 1>>)],
                                CHOOSE p \in found : TRUE)]
                /\ cache' = cache
           ELSE /\ cache' = got.cache
                /\ req' = [req EXCEPT ![r] =
                       IF got.value # Nothing
                       THEN Parsed([q EXCEPT !.ops = @ \o << <<"query", name_lower, 0>>,
                                                           <<"cache_get", key, 1>> >>],
                                   got.value[1])
                       ELSE [q EXCEPT !.ops = @ \o << <<"query", name_lower, 0>>,
                                                    <<"cache_get", key, 0>> >>,
                                      !.pc = "fetch"]]
        /\ UNCHANGED <<store, battles, pending, source, now, next_id, started>>
        /\ UNCHANGED <<bvars, hvars>>

\* PokeAPIClient.get_pokemon from the answer of the external source on: a
\* 404 raises PokemonNotFoundError, any other failure PokeAPIError; a
\* success is cached, then parsed, and handed to _create_pokemon.
Fetch(r) ==
    LET q == req[r]
        name == Normalize(LookupArg(q))
        name_lower == Normalize(name)
    IN  /\ q.pc = "fetch"
        /\ \E response \in ExternalOutcomes(name_lower) :
              LET got == get_pokemon_response(name, response)
                  q1 == [q EXCEPT !.ops = Append(@, <<"external", name_lower,
                                                      response.status_code>>)]
              IN  IF got.raised # Nothing
                  THEN /\ req' = [req EXCEPT ![r] = Raise(q1, got.raised[1])]
                       /\ cache' = cache
                  ELSE /\ cache' = cache_response(cache, name_lower, got.data[1], now)
                       /\ req' = [req EXCEPT ![r] =
                              Parsed([q1 EXCEPT !.ops = Append(@, <<"cache_set", name_lower, 0>>)],
                                     got.data[1])]
        /\ UNCHANGED <<store, battles, pending, source, now, next_id, started>>
        /\ UNCHANGED <<bvars, hvars>>

\* As UniqueViolations, but the table has no unique constraint.
UniqueViolations_none(rows, data) == {}

\* The unique columns of table pokemon (models.py) that `data` would repeat.
UniqueViolations(rows, data) ==
    { col \in {"name", "pokeapi_id"} : \E p \in rows : p[col] = data[col] }

\* PokemonService._create_pokemon: db.add(pokemon); await db.flush().  The
\* INSERT waits while another session holds an uncommitted row with the same
\* unique key, and fails on a unique key a visible row already has.
create_pokemon(r) ==
    LET q == req[r]
        data == q.data
        pokemon == [Pokemon(next_id.pokemon, data.pokeapi_id, data.name,
                            StatsOf(data), data.types, data.sprite_url,
                            Normalize(LookupArg(q)))
                    EXCEPT !.id = next_id.pokemon]
        clash == UniqueViolations(Visible(r), data)
        q1 == [q EXCEPT !.ops = Append(@, <<"insert", data.name, next_id.pokemon>>),
                       !.data = None]
    IN  /\ q.pc = "insert"
        /\ \A o \in Requests \ {r} : UniqueViolations(pending[o].pokemon, data) = {}
        /\ next_id' = [next_id EXCEPT !.pokemon = @ + 1]
        /\ IF clash # {}
           THEN /\ req' = [req EXCEPT ![r] =
                       Raise(q1, IntegrityError(CHOOSE col \in clash : TRUE))]
                /\ pending' = pending
           ELSE /\ pending' = [pending EXCEPT ![r].pokemon = @ \cup {pokemon}]
                /\ req' = [req EXCEPT ![r] = Resolved(q1, pokemon)]
        /\ UNCHANGED <<store, battles, cache, source, now, started>>
        /\ UNCHANGED <<bvars, hvars>>

\* Battle(...) as BattleService.execute_battle builds it from the two records
\* and the result.  request is not a column: it records the request that
\* created the row.
BattleRow(id, pokemon1, pokemon2, res, request) ==
    [id |-> id, pokemon1_id |-> pokemon1.id, pokemon2_id |-> pokemon2.id,
     winner_id |-> IF res.winner # None THEN Some(res.winner.id) ELSE Nothing,
     pokemon1_score |-> res.pokemon1_score,
     pokemon2_score |-> res.pokemon2_score,
     battle_log |-> res.battle_log, request |-> request]

\* BattleService.execute_battle after both lookups: the battle is executed
\* and its record flushed; create_battle builds the response from it.
save_battle(r) ==
    /\ req[r].pc = "save_battle"
    /\ \E res \in { execute_battle(req[r].pokemon1, req[r].pokemon2) } :
          LET q == req[r]
              battle == BattleRow(next_id.battles, q.pokemon1, q.pokemon2, res,
                                  q.serial)
          IN  /\ pending' = [pending EXCEPT ![r].battles = @ \cup {battle}]
              /\ req' = [req EXCEPT ![r] =
                            [q EXCEPT !.result = res, !.battle = battle,
                                      !.ops = Append(@, <<"insert_battle", <<>>,
                                                         next_id.battles>>),
                                      !.pc = "commit"]]
    /\ next_id' = [next_id EXCEPT !.battles = @ + 1]
    /\ UNCHANGED <<store, battles, cache, source, now, started>>
    /\ UNCHANGED <<bvars, hvars>>

\* The body of a success response.
BattleResponse(q) ==
    [id |-> q.battle.id, pokemon1 |-> q.pokemon1, pokemon2 |-> q.pokemon2,
     winner |-> q.result.winner,
     pokemon1_score |-> q.battle.pokemon1_score,
     pokemon2_score |-> q.battle.pokemon2_score,
     battle_log |-> q.battle.battle_log]

\* As Commit, but the session's battle rows are not made durable.
Commit_without_battles(r) ==
    LET q == req[r]
    IN  /\ q.pc = "commit"
        /\ store' = store \cup pending[r].pokemon
        /\ pending' = [pending EXCEPT ![r] = [pokemon |-> {}, battles |-> {}]]
        /\ req' = [req EXCEPT ![r] =
                      [q EXCEPT !.pc = "done",
                                !.response =
                                    IF q.kind = "battle"
                                    THEN [status_code |-> 201, detail |-> <<>>,
                                          body |-> BattleResponse(q)]
                                    ELSE [status_code |-> 200, detail |-> <<>>,
                                          body |-> q.pokemon1]]]
        /\ UNCHANGED <<battles, cache, source, now, next_id, started>>
        /\ UNCHANGED <<bvars, hvars>>

\* get_db after the endpoint returned: await session.commit().
Commit(r) ==
    LET q == req[r]
    IN  /\ q.pc = "commit"
        /\ store' = store \cup pending[r].pokemon
        /\ battles' = battles \cup pending[r].battles
        /\ pending' = [pending EXCEPT ![r] = [pokemon |-> {}, battles |-> {}]]
        /\ req' = [req EXCEPT ![r] =
                      [q EXCEPT !.pc = "done",
                                !.response =
                                    IF q.kind = "battle"
                                    THEN [status_code |-> 201, detail |-> <<>>,
                                          body |-> BattleResponse(q)]
                                    ELSE [status_code |-> 200, detail |-> <<>>,
                                          body |-> q.pokemon1]]]
        /\ UNCHANGED <<cache, source, now, next_id, started>>
        /\ UNCHANGED <<bvars, hvars>>

\* As Rollback, but the rows the session had flushed are kept.
Rollback_keeps_rows(r) ==
    LET q == req[r]
    IN  /\ q.pc = "rollback"
        /\ store' = store \cup pending[r].pokemon
        /\ pending' = [pending EXCEPT ![r] = [pokemon |-> {}, battles |-> {}]]
        /\ req' = [req EXCEPT ![r] =
                      [q EXCEPT !.pc = "done", !.response = ErrorResponse(q.exc)]]
        /\ UNCHANGED <<battles, cache, source, now, next_id, started>>
        /\ UNCHANGED <<bvars, hvars>>

\* get_db when the endpoint raised: await session.rollback(); raise.
Rollback(r) ==
    LET q == req[r]
    IN  /\ q.pc = "rollback"
        /\ pending' = [pending EXCEPT ![r] = [pokemon |-> {}, battles |-> {}]]
        /\ req' = [req EXCEPT ![r] =
                      [q EXCEPT !.pc = "done", !.response = ErrorResponse(q.exc)]]
        /\ UNCHANGED <<store, battles, cache, source, now, next_id, started>>
        /\ UNCHANGED <<bvars, hvars>>

\* The response has been sent and the handler's variables are gone.
Close(r) ==
    /\ req[r].pc = "done"
    /\ req' = [req EXCEPT ![r] = IdleRequest]
    /\ UNCHANGED <<store, battles, pending, cache, source, now, next_id, started>>
    /\ UNCHANGED <<bvars, hvars>>

\* Time passes (between requests).
Tick ==
    /\ now < MaxTime
    /\ \A r \in Requests : ~InFlight(r)
    /\ now' = now + 1
    /\ UNCHANGED <<store, battles, pending, cache, source, next_id, started, req>>
    /\ UNCHANGED <<bvars, hvars>>

(***************************************************************************)
(* The cache harness: set, get and clear on one PokemonCache as time passes *)
(***************************************************************************)
CacheKeys == { <<"a">>, <<"b">> }
CachePayloads == { payload_a, payload_b_equal }

\* cache.set(key, value).  written remembers the call.
CacheSet(key, value) ==
    /\ cache' = PokemonCache_set(cache, key, value, now)
    /\ written' = [k \in DOMAIN written \cup {key} |->
                      IF k = key
                      THEN [data |-> value, at |-> now, cleared |-> FALSE]
                      ELSE written[k]]
    /\ UNCHANGED <<store, battles, pending, source, now, next_id, started, req>>
    /\ UNCHANGED <<bvars, power, side, atk_labels, def_labels, effectiveness,
                   last_get>>

\* cache.get(key).  last_get records the call, what it returned, and what
\* written held for the key at that moment.
CacheGet(key) ==
    /\ cache' = PokemonCache_get(cache, key, now).cache
    /\ last_get' = [key |-> key, at |-> now,
                    value |-> PokemonCache_get(cache, key, now).value,
                    last |-> IF key \in DOMAIN written THEN Some(written[key])
                             ELSE Nothing]
    /\ UNCHANGED <<store, battles, pending, source, now, next_id, started, req>>
    /\ UNCHANGED <<bvars, power, side, atk_labels, def_labels, effectiveness,
                   written>>

\* cache.clear().  written marks every earlier set() as cleared.
CacheClear ==
    /\ cache' = PokemonCache_clear(cache)
    /\ written' = [k \in DOMAIN written |-> [written[k] EXCEPT !.cleared = TRUE]]
    /\ UNCHANGED <<store, battles, pending, source, now, next_id, started, req>>
    /\ UNCHANGED <<bvars, power, side, atk_labels, def_labels, effectiveness,
                   last_get>>

(***************************************************************************)
(* The type harness: get_type_effectiveness on every pair of label lists   *)
(***************************************************************************)
\* The keys of the chart, and a label the chart does not know.
KnownTypes == DOMAIN TYPE_CHART
UnknownType == "shadow"
Labels == KnownTypes \cup {UnknownType}

\* Every list of no, one or two labels.
LabelLists ==
    {<<>>} \cup { <<a>> : a \in Labels } \cup { <<a, b>> : a, b \in Labels }

TypeHarnessInit ==
    /\ atk_labels \in LabelLists
    /\ def_labels \in LabelLists
    /\ effectiveness = Nothing

\* effectiveness = get_type_effectiveness(atk_labels, def_labels)
TypeEffectiveness ==
    /\ effectiveness = Nothing
    /\ effectiveness' = Some(get_type_effectiveness(atk_labels, def_labels))
    /\ UNCHANGED <<svars, bvars>>
    /\ UNCHANGED <<power, side, atk_labels, def_labels, written, last_get>>

(***************************************************************************)
(* The score harness: calculate_base_power and calculate_battle_score on   *)
(* every pair of contenders                                                *)
(***************************************************************************)
ScoreHarnessInit ==
    /\ power = Nothing
    /\ side = None

\* power = calculate_base_power(first)
BasePower ==
    /\ power = Nothing
    /\ power' = Some(calculate_base_power(first))
    /\ UNCHANGED <<svars, bvars>>
    /\ UNCHANGED <<side, atk_labels, def_labels, effectiveness, written, last_get>>

\* side = calculate_battle_score(first, second, p1_types, p2_types), called
\* as execute_battle calls it.
BattleScore ==
    /\ side = None
    /\ side' = calculate_battle_score(first, second, parse_types(first.types),
                                      parse_types(second.types))
    /\ UNCHANGED <<svars, bvars>>
    /\ UNCHANGED <<power, atk_labels, def_labels, effectiveness, written, last_get>>

(***************************************************************************)
(* Specifications                                                          *)
(***************************************************************************)
BattleHarnessIdle ==
    /\ first = None
    /\ second = None
    /\ result = None
    /\ rematch = None

\* The other harnesses, not in use.
HarnessIdle ==
    /\ power = Nothing
    /\ side = None
    /\ atk_labels = <<>>
    /\ def_labels = <<>>
    /\ effectiveness = Nothing
    /\ written = <<>>
    /\ last_get = None

\* The service: requests arrive and are handled.
Init == ServiceInit /\ BattleHarnessIdle /\ HarnessIdle

Next ==
    \/ \E r \in Requests, n1 \in RequestNames, n2 \in RequestNames :
          StartBattle(r, n1, n2)
    \/ \E r \in Requests, n \in RequestNames : StartGet(r, n)
    \/ \E r \in Requests : Lookup(r)
    \/ \E r \in Requests : Fetch(r)
    \/ \E r \in Requests : create_pokemon(r)
    \/ \E r \in Requests : save_battle(r)
    \/ \E r \in Requests : Commit(r)
    \/ \E r \in Requests : Rollback(r)
    \/ \E r \in Requests : Close(r)
    \/ Tick

Spec == Init /\ [][Next]_vars

\* The scoring functions alone: execute_battle on every pair of contenders.
InitBattle ==
    /\ ServiceInit
    /\ source = POKEAPI(payload_b_strong)
    /\ BattleHarnessInit
    /\ HarnessIdle

NextBattle == Battle \/ Rematch

SpecBattle == InitBattle /\ [][NextBattle]_vars

\* The cache alone: set, get, clear and the passing of time.
InitCache ==
    /\ ServiceInit
    /\ source = POKEAPI(payload_b_strong)
    /\ BattleHarnessIdle
    /\ HarnessIdle

NextCache ==
    \/ \E key \in CacheKeys, value \in CachePayloads : CacheSet(key, value)
    \/ \E key \in CacheKeys : CacheGet(key)
    \/ CacheClear
    \/ Tick

SpecCache == InitCache /\ [][NextCache]_vars

\* get_type_effectiveness alone, on every pair of label lists.
InitTypes ==
    /\ ServiceInit
    /\ source = POKEAPI(payload_b_strong)
    /\ BattleHarnessIdle
    /\ power = Nothing
    /\ side = None
    /\ TypeHarnessInit
    /\ written = <<>>
    /\ last_get = None

NextTypes == TypeEffectiveness

SpecTypes == InitTypes /\ [][NextTypes]_vars

\* calculate_base_power and calculate_battle_score alone.
InitScore ==
    /\ ServiceInit
    /\ source = POKEAPI(payload_b_strong)
    /\ BattleHarnessInit
    /\ ScoreHarnessInit
    /\ atk_labels = <<>>
    /\ def_labels = <<>>
    /\ effectiveness = Nothing
    /\ written = <<>>
    /\ last_get = None

NextScore == BasePower \/ BattleScore

SpecScore == InitScore /\ [][NextScore]_vars

\* Concurrent GET /pokemon/{name} requests over an empty store.
InitRace == ServiceInit /\ BattleHarnessIdle /\ HarnessIdle

NextRace ==
    \/ \E r \in Requests, n \in RaceNames : StartConcurrentGet(r, n)
    \/ \E r \in Requests : Lookup(r)
    \/ \E r \in Requests : Fetch(r)
    \/ \E r \in Requests : create_pokemon(r)
    \/ \E r \in Requests : Commit(r)
    \/ \E r \in Requests : Rollback(r)
    \/ \E r \in Requests : Close(r)

SpecRace == InitRace /\ [][NextRace]_vars

\* GET /pokemon/{name} against a source that holds a malformed payload.
ClientNames == { <<"a">>, <<"m">>, <<"z">> }

InitClient ==
    /\ store = {}
    /\ battles = {}
    /\ pending = [r \in Requests |-> [pokemon |-> {}, battles |-> {}]]
    /\ cache = <<>>
    /\ source = POKEAPI_malformed
    /\ now = 0
    /\ next_id = [pokemon |-> 1, battles |-> 1]
    /\ started = 0
    /\ req = [r \in Requests |-> IdleRequest]
    /\ BattleHarnessIdle
    /\ HarnessIdle

NextClient ==
    \/ \E r \in Requests, n \in ClientNames : StartGet(r, n)
    \/ \E r \in Requests : Lookup(r)
    \/ \E r \in Requests : Fetch(r)
    \/ \E r \in Requests : create_pokemon(r)
    \/ \E r \in Requests : Commit(r)
    \/ \E r \in Requests : Rollback(r)
    \/ \E r \in Requests : Close(r)
    \/ Tick

SpecClient == InitClient /\ [][NextClient]_vars

\* POST /battles alone, with two names the source knows and two it does not.
OrderNames == { <<"a">>, <<"b">>, <<"y">>, <<"z">> }

NextOrder ==
    \/ \E r \in Requests, n1 \in OrderNames, n2 \in OrderNames :
          StartBattle(r, n1, n2)
    \/ \E r \in Requests : Lookup(r)
    \/ \E r \in Requests : Fetch(r)
    \/ \E r \in Requests : create_pokemon(r)
    \/ \E r \in Requests : save_battle(r)
    \/ \E r \in Requests : Commit(r)
    \/ \E r \in Requests : Rollback(r)
    \/ \E r \in Requests : Close(r)
    \/ Tick

SpecOrder == Init /\ [][NextOrder]_vars

(***************************************************************************)
(* Properties of execute_battle (SpecBattle)                               *)
(***************************************************************************)
\* The two scores before rounding, as execute_battle computes them.
score1 ==
    calculate_battle_score(first, second, parse_types(first.types),
                           parse_types(second.types)).score
score2 ==
    calculate_battle_score(second, first, parse_types(second.types),
                           parse_types(first.types)).score

\* C1: execute_battle returns a result in which exactly one of "winner is
\* set" and is_draw holds, and a set winner is one of the two participants;
\* the Battle row built from the result has winner_id null iff the result is
\* a draw, and otherwise winner_id is pokemon1_id or pokemon2_id.
C1_WinnerXorDraw ==
    result # None =>
        LET battle == BattleRow(1, first, second, result, 0)
        IN  /\ (result.winner # None) # result.is_draw
            /\ result.winner # None => result.winner \in {first, second}
            /\ (battle.winner_id = Nothing) <=> result.is_draw
            /\ battle.winner_id # Nothing =>
                  battle.winner_id[1] \in {battle.pokemon1_id, battle.pokemon2_id}

\* A battle was decided for the second participant and its row names it.
C1_Witness ==
    /\ result # None
    /\ ~result.is_draw
    /\ result.winner = second
    /\ BattleRow(1, first, second, result, 0).winner_id = Some(second.id)

\* C2: two records with equal six attributes and equal types strings (names
\* and ids differ), the all-zero record included, battle to a draw with no
\* winner.
C2_IdenticalDraw ==
    (result # None /\ StatsOf(first) = StatsOf(second) /\ first.types = second.types)
        => (result.is_draw /\ result.winner = None)

\* Two all-zero records of different name and id have battled to a draw.
C2_Witness ==
    /\ result # None
    /\ StatsOf(first) = Stats(0, 0, 0, 0, 0, 0)
    /\ StatsOf(second) = Stats(0, 0, 0, 0, 0, 0)
    /\ first.types = second.types
    /\ first.name # second.name /\ first.id # second.id
    /\ result.is_draw

\* C3: execute_battle(b, a) mirrors execute_battle(a, b): the two scores are
\* swapped, is_draw is the same, the winner is the same record or none in
\* both.
C3_Mirror ==
    (result # None /\ rematch # None) =>
        /\ rematch.pokemon1_score = result.pokemon2_score
        /\ rematch.pokemon2_score = result.pokemon1_score
        /\ rematch.is_draw = result.is_draw
        /\ rematch.winner = result.winner

\* Both orders were played, with different scores, and the first argument of
\* the first battle won both.
C3_Witness ==
    /\ result # None /\ rematch # None
    /\ result.pokemon1_score # result.pokemon2_score
    /\ result.winner = first
    /\ rematch.winner = first

\* C4: execute_battle declares a draw exactly when the average of the two
\* unrounded scores is positive and their absolute difference is strictly
\* less than 1% of it, or the average is zero and the scores are equal.
C4_DrawRule ==
    result # None =>
        LET avg == RDiv(RAdd(score1, score2), Two)
            diff == IF RLt(score1, score2) THEN RSub(score2, score1)
                    ELSE RSub(score1, score2)
        IN  result.is_draw <=>
               \/ (RLt(Zero, avg) /\ RLt(RMul(diff, I(100)), avg))
               \/ (avg = Zero /\ score1 = score2)

\* A battle whose scores differ by exactly 1% of their average: not a draw.
C4_Witness ==
    /\ result # None
    /\ RLt(Zero, RAdd(score1, score2))
    /\ RMul(RSub(score1, score2), I(200)) = RAdd(score1, score2)
    /\ ~result.is_draw

\* C5: when execute_battle declares no draw, the unrounded scores differ and
\* the winner is the participant with the strictly higher one; equal scores
\* never produce a winner.
C5_HigherScoreWins ==
    result # None =>
        /\ ~result.is_draw =>
              /\ score1 # score2
              /\ result.winner = (IF RLt(score2, score1) THEN first ELSE second)
              /\ result.winner = first => RLt(score2, score1)
              /\ result.winner = second => RLt(score1, score2)
        /\ score1 = score2 => result.winner = None

\* Scores within 2% but not within 1% of their average: the higher one wins.
C5_Witness ==
    /\ result # None
    /\ ~result.is_draw
    /\ RLt(score1, score2)
    /\ RLt(RMul(RSub(score2, score1), I(100)), RAdd(score1, score2))
    /\ result.winner = second

(***************************************************************************)
(* Properties of the service (Spec)                                        *)
(***************************************************************************)
\* The request is a battle whose two names are equal once lower-cased and
\* trimmed.
SameNames(q) ==
    /\ q.kind = "battle"
    /\ q.pc # "idle"
    /\ Strip(Lower(q.pokemon1_name)) = Strip(Lower(q.pokemon2_name))

NoRows == [pokemon |-> {}, battles |-> {}]

\* C6: BattleService.execute_battle with two names equal after lower-casing
\* and trimming raises SamePokemonError before any lookup: the request has
\* made no store query, cache read, external call or insert, and no step of
\* it changes the store or the cache.
C6_SameNamesRejected ==
    [][\A r \in Requests :
          SameNames(req'[r]) =>
             /\ req'[r].exc = SamePokemonError(Strip(Lower(req'[r].pokemon1_name)))
             /\ req'[r].pc \in {"rollback", "done"}
             /\ req'[r].ops = <<>>
             /\ pending'[r] = NoRows
             /\ store' = store /\ battles' = battles /\ cache' = cache]_vars

\* " A " against "a" was rejected while the store and the cache held data.
C6_Witness ==
    \E r \in Requests :
        /\ req[r].pc = "done"
        /\ req[r].pokemon1_name = <<" ", "A", " ">>
        /\ req[r].pokemon2_name = <<"a">>
        /\ req[r].exc = SamePokemonError(<<"a">>)
        /\ store # {}
        /\ DOMAIN cache # {}

\* The record get_or_fetch_pokemon has returned to the request, if any.
Returned(q) == IF q.kind = "battle" /\ q.which = 2 /\ q.pc # "lookup"
               THEN q.pokemon2 ELSE q.pokemon1

\* C7: once a get_or_fetch_pokemon(n) has fetched and inserted a record (and
\* its request committed), a later get_or_fetch_pokemon(m) with the same
\* normalized name is served from the store: its query finds that record and
\* returns it, with no cache read, external call or insert.
C7_SecondLookupFromStore ==
    [][\A r \in Requests :
          LET q == req[r]
              name == Strip(Lower(LookupArg(q)))
              earlier == { p \in store : p.lookup_name = name }
          IN  (q.pc = "lookup" /\ req'[r] # q /\ earlier # {}) =>
                 \E p \in earlier :
                    /\ req'[r].ops = Append(q.ops, <<"query", name, 1>>)
                    /\ req'[r].exc = None
                    /\ req'[r].pc # "lookup" => Returned(req'[r]) = p
                    /\ req'[r].pc = "lookup" => req'[r].pokemon1 = p
                    /\ cache' = cache /\ pending' = pending]_vars

\* C8: every record of the store has a unique name, in normalized form, equal
\* to the normalized name under which get_or_fetch_pokemon looked it up when
\* it inserted the record.
C8_NamesNormalized ==
    \A p \in store :
        /\ p.name = Strip(Lower(p.name))
        /\ p.name = p.lookup_name
        /\ \A o \in store : o.name = p.name => o = p

\* The battle rows stored for the request.
BattlesOf(q) == { b \in battles : b.request = q.serial }

\* C9: a POST /battles that succeeds leaves exactly one new battle row, which
\* references both participants, both scores, the trace and the optional
\* winner; one that fails leaves none; no battle row is stored for a request
\* that has not succeeded.
C9_AllOrNothing ==
    /\ \A r \in Requests :
          LET q == req[r]
          IN  q.kind = "battle" =>
                 IF q.pc = "done" /\ q.response.status_code = 201
                 THEN /\ BattlesOf(q) = {q.battle}
                      /\ pending[r] = NoRows
                      /\ {q.pokemon1, q.pokemon2} \subseteq store
                      /\ \A b \in BattlesOf(q) :
                            /\ b.pokemon1_id = q.pokemon1.id
                            /\ b.pokemon2_id = q.pokemon2.id
                            /\ b.pokemon1_score = q.result.pokemon1_score
                            /\ b.pokemon2_score = q.result.pokemon2_score
                            /\ b.battle_log = q.result.battle_log
                            /\ b.winner_id = (IF q.result.is_draw THEN Nothing
                                              ELSE Some(q.result.winner.id))
                 ELSE /\ BattlesOf(q) = {}
                      /\ q.pc = "done" => pending[r] = NoRows
    /\ \A b \in battles :
          /\ b.request \in 1..started
          /\ \A c \in battles : c.request = b.request => c = b

\* A battle with a winner has been answered 201 and its row is stored.
C9_Witness ==
    \E r \in Requests :
        /\ req[r].pc = "done"
        /\ req[r].response.status_code = 201
        /\ req[r].battle \in battles
        /\ req[r].battle.winner_id # Nothing
        /\ req[r].battle.pokemon1_id # req[r].battle.pokemon2_id

\* The status codes the external source answered the request with (0: none).
Answers(q) == { q.ops[i][3] : i \in { j \in DOMAIN q.ops : q.ops[j][1] = "external" } }

\* C10: POST /battles answers 201 with the outcome on success, 400 when the
\* names are identical after normalization, 404 when the source does not
\* know a name, 502 when the source fails; 404 (POKEMON_NOT_FOUND) and 400
\* (SAME_POKEMON) are never confused; any other domain error maps to 500.
C10_StatusCodes ==
    /\ \A r \in Requests :
          LET q == req[r]
              status == q.response.status_code
          IN  (q.kind = "battle" /\ q.pc = "done") =>
                 /\ (status = 201) <=> (q.exc = None)
                 /\ status = 201 =>
                       /\ q.response.body.id = q.battle.id
                       /\ q.response.body.winner = q.result.winner
                       /\ q.response.body.pokemon1_score = q.result.pokemon1_score
                       /\ q.response.body.pokemon2_score = q.result.pokemon2_score
                       /\ q.response.body.battle_log = q.result.battle_log
                 /\ SameNames(q) =>
                       /\ status = 400
                       /\ q.exc.error_code = Some("SAME_POKEMON")
                 /\ (~SameNames(q) /\ 404 \in Answers(q)) =>
                       /\ status = 404
                       /\ q.exc.error_code = Some("POKEMON_NOT_FOUND")
                 /\ (~SameNames(q) /\ Answers(q) \cap {0, 500} # {}) => status = 502
                 /\ status = 404 => ~SameNames(q)
                 /\ status = 400 => (SameNames(q) /\ Answers(q) = {})
    /\ handle_pokemon_error(DatabaseError(<<"x">>)).status_code = 500
    /\ handle_pokemon_error(PokemonBattleError(<<"x">>, Nothing)).status_code = 500

\* The first name resolved, the source did not know the second: 404.
C10_Witness ==
    \E r \in Requests :
        /\ req[r].kind = "battle"
        /\ req[r].pc = "done"
        /\ req[r].pokemon1 # None
        /\ 404 \in Answers(req[r])
        /\ req[r].response.status_code = 404

(***************************************************************************)
(* Properties of the cache (SpecCache)                                     *)
(***************************************************************************)
\* C11: a get(k) returns the payload most recently set for k if that set()
\* happened at a time t with now <= t + ttl, and returns nothing at any later
\* time; a get of a key never set returns nothing.
C11_CacheTTL ==
    last_get # None =>
        /\ last_get.last = Nothing => last_get.value = Nothing
        /\ (last_get.last # Nothing /\ ~last_get.last[1].cleared) =>
              IF last_get.at <= last_get.last[1].at + pokemon_ttl
              THEN last_get.value = Some(last_get.last[1].data)
              ELSE last_get.value = Nothing

\* A get at exactly t + ttl (a time after t) returned the payload.
C11_Witness ==
    /\ last_get # None
    /\ last_get.last # Nothing
    /\ ~last_get.last[1].cleared
    /\ last_get.at = last_get.last[1].at + pokemon_ttl
    /\ last_get.value = Some(last_get.last[1].data)

\* C12: after clear(), get(k) returns nothing for every key, whether the
\* entry was live or expired, until k is set again.
C12_ClearForgets ==
    (last_get # None /\ last_get.last # Nothing /\ last_get.last[1].cleared)
        => last_get.value = Nothing

\* An entry still within its time-to-live was cleared, and the get after the
\* clear returned nothing.
C12_Witness ==
    /\ last_get # None
    /\ last_get.last # Nothing
    /\ last_get.last[1].cleared
    /\ last_get.at <= last_get.last[1].at + pokemon_ttl
    /\ last_get.value = Nothing

(***************************************************************************)
(* Properties of get_type_effectiveness (SpecTypes)                        *)
(***************************************************************************)
\* The chart's entry for one (attacking, defending) pair; 1 when the chart
\* has no such pair or does not know one of the labels.
Entry(a, d) ==
    IF a \in DOMAIN TYPE_CHART /\ d \in DOMAIN TYPE_CHART[a]
    THEN TYPE_CHART[a][d] ELSE One

\* The positions of the full cross product whose entry is v.
PairsWith(v) ==
    { p \in (DOMAIN atk_labels) \X (DOMAIN def_labels) :
         Entry(atk_labels[p[1]], def_labels[p[2]]) = v }

RECURSIVE Pow2(_)
Pow2(n) == IF n = 0 THEN 1 ELSE 2 * Pow2(n - 1)

\* The product of the entries of the full cross product: every entry is 0,
\* 1/2, 1 or 2.
CrossProduct ==
    IF PairsWith(Zero) # {} THEN Zero
    ELSE Q(Pow2(Cardinality(PairsWith(Two))), Pow2(Cardinality(PairsWith(Half))))

\* C13: get_type_effectiveness is the product of the chart's entries over
\* the full cross product of attacking and defending labels, an absent pair
\* or an unknown label counting as 1; fire vs grass is 2, fire vs water 1/2,
\* normal vs ghost 0, electric vs water,flying 4 and fire,flying vs grass 4.
C13_CrossProduct ==
    /\ effectiveness # Nothing => effectiveness = Some(CrossProduct)
    /\ get_type_effectiveness(<<"fire">>, <<"grass">>) = Two
    /\ get_type_effectiveness(<<"fire">>, <<"water">>) = Half
    /\ get_type_effectiveness(<<"normal">>, <<"ghost">>) = Zero
    /\ get_type_effectiveness(<<"electric">>, <<"water", "flying">>) = I(4)
    /\ get_type_effectiveness(<<"fire", "flying">>, <<"grass">>) = I(4)

\* Two attacking labels against a known and an unknown defending label:
\* both attackers count against the known one, the unknown one counts as 1.
C13_Witness ==
    /\ atk_labels = <<"fire", "flying">>
    /\ def_labels = <<"shadow", "grass">>
    /\ effectiveness = Some(I(4))

\* C14: for lists of one or two labels of the chart, the combined
\* effectiveness is one of 0, 1/4, 1/2, 1, 2 and 4.
C14_Range ==
    ( /\ effectiveness # Nothing
      /\ Len(atk_labels) \in 1..2
      /\ Len(def_labels) \in 1..2
      /\ \A i \in DOMAIN atk_labels : atk_labels[i] \in KnownTypes
      /\ \A i \in DOMAIN def_labels : def_labels[i] \in KnownTypes )
    => effectiveness[1] \in {Zero, Q(1, 4), Half, One, Two, I(4)}

(***************************************************************************)
(* Properties of calculate_base_power and calculate_battle_score           *)
(* (SpecScore)                                                             *)
(***************************************************************************)
\* C15: calculate_base_power is (hp + attack + special_attack + defense +
\* special_defense + 2 * speed) / 8, is the same on a record holding the six
\* attributes and nothing else, and is 51.25 for 35/55/40/50/50/90.
C15_BasePower ==
    /\ power # Nothing =>
          /\ RMul(power[1], I(8)) =
                I(first.hp + first.attack + first.special_attack
                  + first.defense + first.special_defense + 2 * first.speed)
          /\ power[1] = calculate_base_power(StatsOf(first))
    /\ calculate_base_power(pikachu_stats) = Q(205, 4)

\* The base power of the 35/55/40/50/50/90 record was computed: 51.25.
C15_Witness ==
    /\ StatsOf(first) = pikachu_stats
    /\ power = Some(Q(205, 4))

\* The attacker's speed over the defender's (at least 1), at most 2.
SpeedFactor ==
    LET d == IF second.speed >= 1 THEN second.speed ELSE 1
    IN  IF first.speed >= 2 * d THEN Two ELSE Q(first.speed, d)

\* C16: the score of first attacking second is 0.5 * base
\* + 0.3 * effectiveness * base + 0.2 * min(speed ratio, 2) * base, so what
\* the score holds beyond the base and type terms is at most 0.4 * base.
C16_Score ==
    side # None =>
        LET base == calculate_base_power(first)
            eff == get_type_effectiveness(parse_types(first.types),
                                          parse_types(second.types))
            base_term == RMul(Half, base)
            type_term == RMul(Q(3, 10), RMul(eff, base))
            speed_term == RMul(Q(1, 5), RMul(SpeedFactor, base))
        IN  /\ side.score = RAdd(RAdd(base_term, type_term), speed_term)
            /\ ~RGt(RSub(RSub(side.score, base_term), type_term),
                    RMul(Q(2, 5), base))

\* The attacker is more than twice as fast as the defender and its speed
\* term is exactly 0.4 * base.
C16_Witness ==
    /\ side # None
    /\ first.speed > 2 * second.speed
    /\ second.speed >= 1
    /\ RGt(calculate_base_power(first), Zero)
    /\ side.score =
          RAdd(RAdd(RMul(Half, calculate_base_power(first)),
                    RMul(Q(3, 10),
                         RMul(get_type_effectiveness(parse_types(first.types),
                                                     parse_types(second.types)),
                              calculate_base_power(first)))),
               RMul(Q(2, 5), calculate_base_power(first)))

(***************************************************************************)
(* The fixtures in battle (SpecBattle)                                     *)
(***************************************************************************)
\* The charizard and pikachu fixtures of tests/conftest.py.
IsCharizard(p) ==
    StatsOf(p) = charizard_stats /\ p.types = <<"fire", ",", "flying">>
IsPikachu(p) ==
    StatsOf(p) = pikachu_stats /\ p.types = <<"electric">>

\* C17: 78/84/78/109/85/100 (fire,flying) against 35/55/40/50/50/90
\* (electric), in either order, is not a draw; the 78/84/78/109/85/100
\* record wins and its score is the larger one.
C17_StrongBeatsWeak ==
    /\ (result # None /\ IsCharizard(first) /\ IsPikachu(second)) =>
          /\ ~result.is_draw
          /\ result.winner = first
          /\ RGt(result.pokemon1_score, result.pokemon2_score)
    /\ (result # None /\ IsPikachu(first) /\ IsCharizard(second)) =>
          /\ ~result.is_draw
          /\ result.winner = second
          /\ RGt(result.pokemon2_score, result.pokemon1_score)

\* The weak record was passed first and the strong one won, 69.12 to 65.6.
C17_Witness ==
    /\ result # None
    /\ IsPikachu(first)
    /\ IsCharizard(second)
    /\ result.winner = second
    /\ result.pokemon1_score = Q(656, 10)
    /\ result.pokemon2_score = Q(6912, 100)

(***************************************************************************)
(* Concurrent lookups (SpecRace)                                           *)
(***************************************************************************)
\* The rows of table pokemon, committed or held by an open session.
AllRows == store \cup UNION { pending[r].pokemon : r \in Requests }

\* The request's get_or_fetch_pokemon call ran its INSERT.
Inserted(q) == \E i \in DOMAIN q.ops : q.ops[i][1] = "insert"

\* The request's call missed the store and asked the external source.
FetchedExternally(q) == \E i \in DOMAIN q.ops : q.ops[i][1] = "external"

\* Two requests under way at once for the same name.
Racing(r, o) ==
    /\ r # o
    /\ req[r].kind = "get"
    /\ req[o].kind = "get"
    /\ Normalize(req[r].name1) = Normalize(req[o].name1)

\* C18: however two concurrent get_or_fetch_pokemon calls for the same
\* unknown name interleave, no two rows have the same name; if both calls
\* ran their INSERT, one succeeded and the other failed on the uniqueness
\* constraint.
C18_UniqueNames ==
    /\ \A p1 \in AllRows, p2 \in AllRows : p1.name = p2.name => p1 = p2
    /\ \A r \in Requests, o \in Requests :
          (Racing(r, o) /\ Inserted(req[r]) /\ Inserted(req[o])) =>
              \E w \in {r, o} : \E l \in {r, o} \ {w} :
                  /\ req[w].exc = None
                  /\ req[w].pokemon1 # None
                  /\ req[l].exc # None
                  /\ req[l].exc.cls = "IntegrityError"
                  /\ req[l].pokemon1 = None

\* Both calls missed the store, both asked the external source and both ran
\* their INSERT; the store holds the one row.
C18_Witness ==
    \E r \in Requests, o \in Requests :
        /\ Racing(r, o)
        /\ FetchedExternally(req[r]) /\ FetchedExternally(req[o])
        /\ Inserted(req[r]) /\ Inserted(req[o])
        /\ req[o].exc # None
        /\ Cardinality(store) = 1

(***************************************************************************)
(* Failures of the external source (Spec)                                  *)
(***************************************************************************)
\* The request's last operation was an external call that did not succeed.
ExternalFailed(q) ==
    /\ q.ops # <<>>
    /\ q.ops[Len(q.ops)][1] = "external"
    /\ q.ops[Len(q.ops)][3] # 200

\* C19: when get_pokemon misses the cache and the external source answers
\* 404, PokemonNotFoundError is raised; on any other failed response or a
\* transport failure, PokeAPIError; either way that step writes no cache
\* entry, and neither it nor any later step of the request inserts a record.
C19_ExternalFailure ==
    [][\A r \in Requests :
          /\ (req[r].pc = "fetch" /\ req'[r].pc # "fetch") =>
                LET q == req'[r]
                    call == q.ops[Len(req[r].ops) + 1]
                IN  /\ call[1] = "external"
                    /\ call[2] = Normalize(LookupArg(req[r]))
                    /\ call[3] = 200 <=> q.exc = None
                    /\ call[3] = 404 =>
                          q.exc = PokemonNotFoundError(Normalize(LookupArg(req[r])))
                    /\ call[3] \notin {200, 404} => q.exc.cls = "PokeAPIError"
                    /\ call[3] # 200 =>
                          /\ ExternalFailed(q)
                          /\ q.pc = "rollback"
                          /\ cache' = cache
                          /\ store' = store
                          /\ pending' = pending
                          /\ next_id' = next_id
          /\ ExternalFailed(req[r]) =>
                /\ req'[r].ops \in {req[r].ops, <<>>}
                /\ store' = store
                /\ pending'[r].pokemon = {}
                /\ next_id' = next_id
                /\ cache' = cache
      ]_vars

\* A request asked the external source, which did not answer: PokeAPIError,
\* nothing cached, nothing stored.
C19_Witness ==
    \E r \in Requests :
        /\ req[r].pc = "done"
        /\ ExternalFailed(req[r])
        /\ req[r].ops[Len(req[r].ops)][3] = 0
        /\ req[r].exc.cls = "PokeAPIError"
        /\ req[r].response.status_code = 502
        /\ cache = <<>>
        /\ store = {}

(***************************************************************************)
(* Error codes at the boundary (Spec)                                      *)
(***************************************************************************)
\* C20: a domain error that reaches the boundary has a message and a
\* non-empty code; any other failure is answered with a 5xx response whose
\* code is "unknown".
C20_ErrorCodes ==
    \A r \in Requests :
        (req[r].pc = "done" /\ req[r].exc # None) =>
            IF IsInstance(req[r].exc, "PokemonBattleError")
            THEN /\ req[r].exc.message # <<>>
                 /\ req[r].exc.error_code # Nothing
                 /\ req[r].exc.error_code # Some("")
            ELSE /\ req[r].response.status_code \in 500..599
                 /\ req[r].response.error_code = Some("unknown")

(***************************************************************************)
(* Positive scores (SpecBattle)                                            *)
(***************************************************************************)
\* The record has at least one positive attribute.
HasPositiveAttribute(p) ==
    p.hp + p.attack + p.defense + p.special_attack + p.special_defense
        + p.speed > 0

\* C21: a participant with at least one positive attribute has a score that
\* is positive and at least half its base power, whatever the opponent, and
\* its two-decimal score in the result is greater than 0.
C21_PositiveScore ==
    result # None =>
        /\ HasPositiveAttribute(first) =>
              /\ RGt(score1, Zero)
              /\ ~RLt(score1, RMul(Half, calculate_base_power(first)))
              /\ RGt(result.pokemon1_score, Zero)
        /\ HasPositiveAttribute(second) =>
              /\ RGt(score2, Zero)
              /\ ~RLt(score2, RMul(Half, calculate_base_power(second)))
              /\ RGt(result.pokemon2_score, Zero)

\* Attack 1 and nothing else, speed 0, electric against ground (immune):
\* the score is 1/16 and the result reports 0.06.
C21_Witness ==
    /\ result # None
    /\ StatsOf(first) = Stats(0, 1, 0, 0, 0, 0)
    /\ first.types = <<"electric">>
    /\ second.types = <<"ground">>
    /\ score1 = Q(1, 16)
    /\ result.pokemon1_score = Q(6, 100)

(***************************************************************************)
(* The store takes precedence (Spec)                                       *)
(***************************************************************************)
\* The rows under the normalized name that request r's query finds.
StoredFor(r) ==
    { p \in store \cup pending[r].pokemon :
         p.name = Normalize(LookupArg(req[r])) }

\* C22: when the store holds a record under the normalized name,
\* get_or_fetch_pokemon returns that record after the store query alone: no
\* cache read or write, no external call, no insert, and store and cache
\* stay as they are, whatever the cache holds for the name.
C22_StoreFirst ==
    [][\A r \in Requests :
          (req[r].pc = "lookup" /\ StoredFor(r) # {} /\ req'[r] # req[r]) =>
              /\ req'[r].ops =
                    Append(req[r].ops,
                           <<"query", Normalize(LookupArg(req[r])), 1>>)
              /\ req'[r].exc = None
              /\ req'[r].data = None
              /\ (IF req[r].which = 1 THEN req'[r].pokemon1
                  ELSE req'[r].pokemon2) \in StoredFor(r)
              /\ cache' = cache
              /\ store' = store
              /\ pending' = pending
              /\ next_id' = next_id
      ]_vars

\* A request was answered from the store by its query alone while the cache
\* still held the expired payload for the name.
C22_Witness ==
    \E r \in Requests :
        /\ req[r].kind = "get"
        /\ req[r].pc = "done"
        /\ req[r].ops = << <<"query", Normalize(req[r].name1), 1>> >>
        /\ req[r].response.status_code = 200
        /\ Normalize(req[r].name1) \in DOMAIN cache
        /\ cache[Normalize(req[r].name1)].expires_at < now

(***************************************************************************)
(* A battle that fails on its second name (Spec)                           *)
(***************************************************************************)
\* The battle request inserted its first participant and then failed to
\* resolve the second: not found, or the source unavailable.
FailedOnSecond(q) ==
    /\ q.kind = "battle"
    /\ q.which = 2
    /\ q.pokemon1 # None
    /\ \E i \in DOMAIN q.ops :
          q.ops[i][1] = "insert" /\ q.ops[i][3] = q.pokemon1.id
    /\ q.exc # None
    /\ q.exc.cls \in {"PokemonNotFoundError", "PokeAPIError"}

\* C23: a battle request that inserted its first participant and then
\* failed on the second is rolled back and answered with the failure: no
\* step of it changes the committed rows, and when it ends its session
\* holds nothing and the inserted record is not in the store.
C23_RolledBack ==
    [][\A r \in Requests :
          FailedOnSecond(req'[r]) =>
              /\ store' = store
              /\ battles' = battles
              /\ req'[r].pokemon2 = None
              /\ req'[r].battle = None
              /\ req'[r].pc \in {"rollback", "done"}
              /\ req'[r].pc = "done" =>
                    /\ pending'[r] = [pokemon |-> {}, battles |-> {}]
                    /\ \A p \in store' : p.id # req'[r].pokemon1.id
                    /\ req'[r].response.status_code =
                          (IF req'[r].exc.cls = "PokemonNotFoundError"
                           THEN 404 ELSE 502)
      ]_vars

\* The first participant was inserted, the second was not found, the request
\* ended with 404 and the store is as empty as before.
C23_Witness ==
    \E r \in Requests :
        /\ FailedOnSecond(req[r])
        /\ req[r].exc.cls = "PokemonNotFoundError"
        /\ req[r].pc = "done"
        /\ req[r].response.status_code = 404
        /\ store = {}
        /\ battles = {}
        /\ next_id.pokemon = 2

(***************************************************************************)
(* When the cache is written (SpecClient)                                  *)
(***************************************************************************)
\* C24: on a success response get_pokemon caches the raw payload under the
\* normalized requested name, with the configured time-to-live, whether or
\* not the payload can then be parsed; no other step adds an entry to the
\* cache or changes one: not a cache hit, not a 404, not a failure.
C24_CacheWrite ==
    [][\A r \in Requests :
          LET key == Normalize(LookupArg(req[r]))
              answered == req[r].pc = "fetch" /\ req'[r].pc # "fetch"
              success ==
                  /\ answered
                  /\ req'[r].ops[Len(req[r].ops) + 1] = <<"external", key, 200>>
          IN  /\ success =>
                    /\ key \in DOMAIN cache'
                    /\ cache'[key] = CacheEntry(source[key], now + pokemon_ttl)
                    /\ \A k \in DOMAIN cache' \ {key} :
                          k \in DOMAIN cache /\ cache'[k] = cache[k]
                    /\ req'[r].ops[Len(req'[r].ops)] = <<"cache_set", key, 0>>
                    /\ ParseFails(source[key]) =>
                          /\ req'[r].exc # None
                          /\ req'[r].exc.cls = "KeyError"
              /\ (req'[r] # req[r] /\ ~success) =>
                    \A k \in DOMAIN cache' :
                        k \in DOMAIN cache /\ cache'[k] = cache[k]
      ]_vars

\* The source answered with a payload that could not be parsed: the request
\* failed and the payload is in the cache.
C24_Witness ==
    \E r \in Requests :
        /\ req[r].pc = "done"
        /\ req[r].exc # None
        /\ req[r].exc.cls = "KeyError"
        /\ req[r].ops[Len(req[r].ops)] = <<"cache_set", <<"m">>, 0>>
        /\ <<"m">> \in DOMAIN cache
        /\ cache[<<"m">>].data = payload_malformed

(***************************************************************************)
(* External calls (Spec)                                                   *)
(***************************************************************************)
\* The positions in the request's operations of its calls to the external
\* source.
ExternalCalls(q) == { i \in DOMAIN q.ops : q.ops[i][1] = "external" }

\* The positions at which the request's get_or_fetch_pokemon calls begin:
\* each begins with the store query.
Invocations(q) == { i \in DOMAIN q.ops : q.ops[i][1] = "query" }

\* The cache holds an entry for the key that has not expired.
LiveInCache(key) == key \in DOMAIN cache /\ now <= cache[key].expires_at

\* C25: a get_or_fetch_pokemon call goes to the external source only when
\* the store has no record and the cache no live entry for the normalized
\* name, and then once; a failed call is the request's last operation and
\* its error is raised, so a battle request makes at most two external calls
\* and a GET at most one.
C25_ExternalCalls ==
    [][\A r \in Requests :
          LET q == req'[r]
              key == Normalize(LookupArg(req[r]))
          IN  /\ (req[r].pc = "lookup" /\ q.pc = "fetch") =>
                    /\ StoredFor(r) = {}
                    /\ ~LiveInCache(key)
              /\ (req[r].pc = "lookup" /\ q # req[r]
                     /\ (StoredFor(r) # {} \/ LiveInCache(key))) =>
                    /\ q.pc # "fetch"
                    /\ ExternalCalls(q) = ExternalCalls(req[r])
              /\ ExternalCalls(q) \ ExternalCalls(req[r]) # {} =>
                    /\ req[r].pc = "fetch"
                    /\ q.pc # "fetch"
                    /\ Cardinality(ExternalCalls(q)) =
                          Cardinality(ExternalCalls(req[r])) + 1
              /\ \A i \in ExternalCalls(q) :
                    /\ Cardinality({ j \in ExternalCalls(q) :
                          \A k \in Invocations(q) : k < i <=> k < j }) = 1
                    /\ q.ops[i][3] # 200 =>
                          /\ i = Len(q.ops)
                          /\ q.exc # None
                          /\ q.pc \in {"rollback", "done"}
              /\ Cardinality(Invocations(q)) <= (IF q.kind = "battle" THEN 2 ELSE 1)
              /\ Cardinality(ExternalCalls(q)) <= (IF q.kind = "battle" THEN 2 ELSE 1)
      ]_vars

\* A battle request made two external calls, one for each name, and the
\* second one failed.
C25_Witness ==
    \E r \in Requests :
        /\ req[r].kind = "battle"
        /\ Cardinality(ExternalCalls(req[r])) = 2
        /\ req[r].ops[Len(req[r].ops)][1] = "external"
        /\ req[r].ops[Len(req[r].ops)][3] = 500
        /\ req[r].pc = "done"
        /\ req[r].response.status_code = 502

(***************************************************************************)
(* execute_battle is total (SpecBattle)                                    *)
(***************************************************************************)
\* No label of the types column is a type of the chart (an empty column
\* among them).
NoKnownType(types) ==
    \A i \in DOMAIN parse_types(types) : parse_types(types)[i] \notin KnownTypes

\* A two-decimal score: a non-negative fraction.
IsScore(x) == Len(x) = 2 /\ x[1] \in Nat /\ x[2] \in Nat \ {0}

\* The score of a record of speed `speed` attacking at effectiveness 1 a
\* defender whose speed counts as `floor`.
NeutralScore(p, floor) ==
    RMul(calculate_base_power(p),
         RAdd(Q(4, 5),
              RMul(Q(1, 5),
                   IF p.speed >= 2 * floor THEN Two ELSE Q(p.speed, floor))))

\* C26: execute_battle returns an outcome for every pair of records: a
\* winner among the two or a draw, and two scores; a defender of speed 0
\* counts as speed 1, and a side whose types column is empty or holds only
\* unknown labels makes both directions neutral.
C26_AlwaysOutcome ==
    result # None =>
        /\ result.is_draw \in BOOLEAN
        /\ result.winner \in {first, second, None}
        /\ IsScore(result.pokemon1_score)
        /\ IsScore(result.pokemon2_score)
        /\ (NoKnownType(first.types) \/ NoKnownType(second.types)) =>
              /\ score1 = NeutralScore(first, IMax(second.speed, 1))
              /\ score2 = NeutralScore(second, IMax(first.speed, 1))
        /\ (second.speed = 0 /\ NoKnownType(second.types)) =>
              score1 = NeutralScore(first, 1)

\* A record with unknown labels beat a record of speed 0 whose types column
\* is empty.
C26_Witness ==
    /\ result # None
    /\ first.types = <<"shadow", ",", " ">>
    /\ second.types = <<>>
    /\ second.speed = 0
    /\ result.winner = first
    /\ result.pokemon2_score = Zero

(***************************************************************************)
(* What a get does to the cache (SpecCache)                                *)
(***************************************************************************)
\* C27: a get(k) after k's expiry removes k's entry and returns nothing; a
\* get of a live or missing key leaves the cache as it is; no get changes
\* the entry of another key.
C27_GetEvicts ==
    [][last_get' # last_get =>
          LET k == last_get'.key
          IN  /\ last_get'.at = now
              /\ IF k \in DOMAIN cache /\ now > cache[k].expires_at
                 THEN /\ last_get'.value = Nothing
                      /\ DOMAIN cache' = DOMAIN cache \ {k}
                 ELSE cache' = cache
              /\ \A j \in DOMAIN cache \ {k} :
                    j \in DOMAIN cache' /\ cache'[j] = cache[j]
      ]_vars

\* The get of an expired key returned nothing and removed its entry; the
\* entry of the other key, expired as well, is still there.
C27_Witness ==
    /\ last_get # None
    /\ last_get.last # Nothing
    /\ ~last_get.last[1].cleared
    /\ last_get.at = now
    /\ now > last_get.last[1].at + pokemon_ttl
    /\ last_get.value = Nothing
    /\ last_get.key \notin DOMAIN cache
    /\ \E j \in DOMAIN cache : now > cache[j].expires_at

(***************************************************************************)
(* The per-side trace (SpecScore)                                          *)
(***************************************************************************)
\* The effectiveness of first attacking second.
SideEffectiveness ==
    get_type_effectiveness(parse_types(first.types), parse_types(second.types))

\* The first, third and fourth line of the trace, and the label of the
\* second.
TraceShape(log) ==
    /\ Len(log) = 4
    /\ log[1] = <<"Base Power", Round2(calculate_base_power(first))>>
    /\ log[2][1] = (IF RGt(SideEffectiveness, One) THEN "Type Advantage"
                    ELSE IF RLt(SideEffectiveness, One) THEN "Type Disadvantage"
                    ELSE "Type: Neutral")
    /\ log[3] = <<(IF first.speed > second.speed THEN "Speed Advantage"
                   ELSE "Speed"), first.speed, second.speed>>
    /\ log[4] = <<"Final Score", Round2(side.score)>>

\* C28, as the code has it: the trace has the four lines base power, type
\* label, speed comparison, final score in this order; the advantage and
\* disadvantage lines carry the multiplier, the neutral line carries the
\* label alone.
C28_Trace ==
    side # None =>
        /\ TraceShape(side.log_entries)
        /\ IF SideEffectiveness = One
           THEN side.log_entries[2] = <<"Type: Neutral">>
           ELSE side.log_entries[2] =
                   <<side.log_entries[2][1], Round2(SideEffectiveness)>>

\* A neutral pairing: the type line is the label alone.
C28_Witness ==
    /\ side # None
    /\ SideEffectiveness = One
    /\ Len(side.log_entries) = 4
    /\ side.log_entries[2] = <<"Type: Neutral">>

\* C28 as stated: the type line carries the multiplier in all three cases.
C28_TraceAsStated ==
    side # None =>
        /\ TraceShape(side.log_entries)
        /\ Len(side.log_entries[2]) = 2
        /\ side.log_entries[2][2] = Round2(SideEffectiveness)

(***************************************************************************)
(* The two participants of a battle row (Spec)                             *)
(***************************************************************************)
\* C29: every battle row, flushed or committed, references two different
\* creature records.
C29_DistinctParticipants ==
    \A b \in battles \cup UNION { pending[r].battles : r \in Requests } :
        b.pokemon1_id # b.pokemon2_id

(***************************************************************************)
(* The order of the two lookups (SpecOrder)                                *)
(***************************************************************************)
\* The operations of the request that name a lookup key.
KeyedOps(q) ==
    { i \in DOMAIN q.ops :
         q.ops[i][1] \in {"query", "cache_get", "external", "cache_set"} }

\* C30: a battle request works on its second name only after the first one
\* is resolved; when the first lookup fails, no operation was or will be
\* made for the second name and the error answered is the first name's.
C30_FirstNameFirst ==
    \A r \in Requests :
        LET q == req[r]
        IN  q.kind = "battle" =>
                /\ q.which = 2 => q.pokemon1 # None
                /\ q.which = 1 =>
                      /\ q.pokemon1 = None /\ q.pokemon2 = None
                      /\ \A i \in KeyedOps(q) : q.ops[i][2] = Normalize(q.name1)
                      /\ Cardinality(Invocations(q)) <= 1
                /\ \A i \in KeyedOps(q) :
                      q.ops[i][2] \in {Normalize(q.name1), Normalize(q.name2)}
                /\ \A i \in KeyedOps(q), j \in KeyedOps(q) :
                      (q.ops[i][2] = Normalize(q.name2)
                          /\ q.ops[j][2] = Normalize(q.name1)) => j < i
                /\ (q.which = 1 /\ q.exc # None /\ q.ops # <<>>) =>
                      /\ q.pc \in {"rollback", "done"}
                      /\ ExternalFailed(q)
                      /\ q.ops[Len(q.ops)][3] = 404 =>
                            q.exc = PokemonNotFoundError(Normalize(q.name1))
                      /\ q.pc = "done" =>
                            q.response.detail = q.exc.message

\* Neither name is known to the source: the answer is the 404 of the first
\* name, and the only operations are those of the first lookup.
C30_Witness ==
    \E r \in Requests :
        /\ req[r].kind = "battle"
        /\ req[r].name1 = <<"z">>
        /\ req[r].name2 = <<"y">>
        /\ req[r].pc = "done"
        /\ req[r].response.status_code = 404
        /\ req[r].response.detail = PokemonNotFoundError(<<"z">>).message
        /\ Len(req[r].ops) = 3

============================================================================
